---- MODULE Spec2Model ----
(***************************************************************************)
(* Connection and session orchestration core of nghttp2's shrpx / h2load:  *)
(*   - the h2load QUIC client engine (src/src/h2load_quic.cc)              *)
(*   - the HTTP/2 downstream connection (src/src/                          *)
(*     shrpx_http2_downstream_connection.cc)                               *)
(***************************************************************************)
EXTENDS Integers, Sequences, FiniteSets, TLC

(***************************************************************************)
(* Bounds of the model                                                     *)
(***************************************************************************)
\* size of the reusable transmit buffer quic.tx.data, in bytes
QUIC_TX_DATALEN == 2
\* bytes the QUIC state machine writes in one run
MaxTxBytes == 2
\* the monotonic clock stops at this value (nanoseconds)
MaxNow == 1
\* the largest finite expiry the state machine reports
MaxExpiry == 1
\* stand-in for UINT64_MAX, the expiry that means "no expiry"
TSTAMP_MAX == 7
\* receive-key install events the state machine delivers in one run
MaxRxKeys == 4

Remotes == {"ra", "rb"}
GsoSizes == {0, 1}
NoAddr == "none"

\* ngtcp2_encryption_level
NGTCP2_ENCRYPTION_LEVEL_INITIAL == "INITIAL"
NGTCP2_ENCRYPTION_LEVEL_HANDSHAKE == "HANDSHAKE"
NGTCP2_ENCRYPTION_LEVEL_1RTT == "1RTT"
NGTCP2_ENCRYPTION_LEVEL_0RTT == "0RTT"
EncryptionLevels ==
  { NGTCP2_ENCRYPTION_LEVEL_INITIAL, NGTCP2_ENCRYPTION_LEVEL_HANDSHAKE,
    NGTCP2_ENCRYPTION_LEVEL_1RTT, NGTCP2_ENCRYPTION_LEVEL_0RTT }

NGTCP2_ERR_CALLBACK_FAILURE == -502

VARIABLES
  client,   \* the h2load Client object (its quic struct, session, wev, fd)
  conn,     \* the QUIC protocol state machine (ngtcp2_conn) as the engine sees it
  now       \* the monotonic clock read by quic_timestamp()

VARIABLES
  h2   \* one Http2Session (h2.session, h2.streams), its downstream connections
       \* (h2.dconns), their Downstreams (h2.downstreams), and the calls made by
       \* the handler that ran last (h2.log) with its return value (h2.rv)

VARIABLES
  push,   \* the last push_request_headers call on an established session: its
          \* inputs (push.input), the header block and the request host it built
          \* (push.block), and the session and Downstream afterwards (push.h)
  dread   \* the last call of the request data provider: its inputs (dread.input)
          \* and what it produced (dread.out)

VARIABLES
  conn_handler,   \* the ConnectionHandler's serial-event channel, the threads that
             \* post to it, the loop thread that drains it, and the workers
  route      \* the last dispatch of a received QUIC datagram: the tables
             \* (route.cfg), the datagram (route.dgram), the result (route.out)

VARIABLES
  rq   \* one read_quic call: its position (rq.pc), counters, return value and quic.last_error

VARIABLES
  cidgen   \* the Connection IDs of one client: those made at init (cidgen.scid, cidgen.dcid) and those supplied on demand (cidgen.cids)

VARIABLES
  closing   \* one call of quic_close_connection: the Client before it (closing.before) and after it (closing.c)

VARIABLES
  hm   \* one call of tls_hostname_match: its arguments and its result

VARIABLES
  certs   \* a CertLookupTree (certs.tree), the add_cert calls made on it (certs.log) and the last lookup (certs.last)

VARIABLES
  dtor   \* one run of ~Http2DownstreamConnection: the session before it (dtor.before) and after it (dtor.h)

VARIABLES
  att   \* a session on which attach_downstream and detach_downstream are called in any order (att.h)

VARIABLES
  wp   \* one call of write_quic_pkt: the HTTP/3 streams, the packet being built and the loop's position

VARIABLES
  tmo   \* one call of on_timeout: the session before it (tmo.before) and after it (tmo.h)

VARIABLES
  sdb   \* the StreamData of one session and the connections they are bound to (sdb.h), and the last attach_stream_data or detach_stream_data call (sdb.last)

VARIABLES
  upl   \* one request body on its way to the origin: the Downstream's two request buffers, the stream's data provider and the session's pending write (upl)

quicVars == <<client, conn, now>>
h2Vars == <<h2>>
\* the variables outside the QUIC client engine, and those outside the HTTP/2
\* downstream connection
notQuic == <<h2, dread, push, conn_handler, route, rq, cidgen, closing, hm, certs, dtor, att, wp, tmo, sdb, upl>>
notH2 == <<client, conn, now, dread, push, conn_handler, route, rq, cidgen, closing, hm, certs, dtor, att, wp, tmo, sdb, upl>>

\* client.log is the trace of the calls made by the Client handler that ran
\* last, in call order, its first entry naming the handler; it is empty after a
\* step that is no handler of the Client.
HasOp(log, op) == \E i \in 1..Len(log) : log[i].op = op

Min(a, b) == IF a < b THEN a ELSE b

(***************************************************************************)
(* h2load QUIC client engine                                               *)
(***************************************************************************)

\* The bytes a span {off, len} of the tx buffer denotes.
SpanBytes(c, off, len) == SubSeq(c.quic.tx.data, off + 1, off + len)

\* The bytes of the pending blocked descriptor (p.data is a span into quic.tx.data).
BlockedData(c) ==
  SpanBytes(c, c.quic.tx.blocked.off, c.quic.tx.blocked.len)

\* ev_io_stop(worker->loop, &wev)
ev_io_stop_wev(c) == [c EXCEPT !.wev = FALSE]

\* Client::signal_write: ask the loop to signal writability again.
signal_write(c) ==
  [c EXCEPT !.wev = TRUE, !.log = Append(@, [op |-> "signal_write"])]

\* Client::write_udp: hand data to sendmsg; the OS accepts the first k bytes
\* (k = 0: EAGAIN/EWOULDBLOCK, k = Len(data): all sent).  The residual the
\* function returns is data without its first k bytes.
write_udp(c, remote, data, gso_size, k) ==
  [c EXCEPT
     !.fd_out = @ \o [i \in 1..k |-> [remote |-> remote, byte |-> data[i]]],
     !.log = Append(@, [op |-> "write_udp", remote |-> remote, data |-> data,
                        gso_size |-> gso_size, accepted |-> k])]

on_send_blocked_NoGso(c, remote_addr, off, len, gso_size) ==
  signal_write(
    [c EXCEPT
       !.assert_failed = IF c.quic.tx.send_blocked
                           THEN @ \cup {"on_send_blocked"} ELSE @,
       !.quic.tx.send_blocked = TRUE,
       !.quic.tx.blocked = [remote_addr |-> remote_addr, off |-> off,
                            len |-> len, gso_size |-> 0],
       !.log = Append(@, [op |-> "on_send_blocked"])])

\* Client::on_send_blocked: assert(!quic.tx.send_blocked), then record the
\* descriptor {remote, data, gso_size} in the single slot and signal write.
on_send_blocked(c, remote_addr, off, len, gso_size) ==
  signal_write(
    [c EXCEPT
       !.assert_failed = IF c.quic.tx.send_blocked
                           THEN @ \cup {"on_send_blocked"} ELSE @,
       !.quic.tx.send_blocked = TRUE,
       !.quic.tx.blocked = [remote_addr |-> remote_addr, off |-> off,
                            len |-> len, gso_size |-> gso_size],
       !.log = Append(@, [op |-> "on_send_blocked"])])

\* Client::write_udp_or_blocked: send the span {off, len} of the tx buffer; when
\* write_udp leaves a residual, on_send_blocked is given the span that was
\* passed in (data), as the code does.
write_udp_or_blocked(c, remote, off, len, gso_size, k) ==
  LET c1 == write_udp(c, remote, SpanBytes(c, off, len), gso_size, k)
  IN  IF k < len
        THEN on_send_blocked(c1, remote, off, len, gso_size)
        ELSE c1

send_blocked_packet_KeepData(c, k) ==
  LET p  == c.quic.tx.blocked
      c1 == write_udp(c, p.remote_addr, BlockedData(c), p.gso_size, k)
  IN  IF k < p.len
        THEN [signal_write(c1) EXCEPT !.rv = 0]
        ELSE [c1 EXCEPT !.quic.tx.send_blocked = FALSE, !.rv = 0]

\* Client::send_blocked_packet: retry the blocked descriptor; on a residual keep
\* the flag, replace p.data by the residual and signal write; else clear the flag.
send_blocked_packet(c, k) ==
  LET p  == c.quic.tx.blocked
      c0 == [c EXCEPT !.assert_failed = IF ~c.quic.tx.send_blocked
                                          THEN @ \cup {"send_blocked_packet"}
                                          ELSE @]
      c1 == write_udp(c0, p.remote_addr, BlockedData(c), p.gso_size, k)
  IN  IF k < p.len
        THEN [signal_write([c1 EXCEPT !.quic.tx.blocked.off = p.off + k,
                                      !.quic.tx.blocked.len = p.len - k])
                EXCEPT !.rv = 0]
        ELSE [c1 EXCEPT !.quic.tx.send_blocked = FALSE, !.rv = 0]

\* quic_restart_pkt_timer that arms the timer only for a finite expiry.
quic_restart_pkt_timer_OnlyFinite(c, expiry, ts) ==
  [c EXCEPT
     !.quic.pkt_timer = [active |-> expiry # TSTAMP_MAX,
                         repeat |-> IF expiry > ts THEN expiry - ts ELSE 1],
     !.log = Append(@, [op |-> "quic_restart_pkt_timer"])]

\* quic_restart_pkt_timer without the 1ns floor.
quic_restart_pkt_timer_NoFloor(c, expiry, ts) ==
  [c EXCEPT
     !.quic.pkt_timer = [active |-> TRUE,
                         repeat |-> IF expiry > ts THEN expiry - ts ELSE 0],
     !.log = Append(@, [op |-> "quic_restart_pkt_timer"])]

\* Client::quic_restart_pkt_timer: repeat = expiry > now ? expiry - now : 1ns,
\* then ev_timer_again.
quic_restart_pkt_timer(c, expiry, ts) ==
  [c EXCEPT
     !.quic.pkt_timer = [active |-> TRUE,
                         repeat |-> IF expiry > ts THEN expiry - ts ELSE 1],
     !.log = Append(@, [op |-> "quic_restart_pkt_timer"])]

\* ngtcp2_conn_write_aggregate_pkt wrote bytes (ids first..first+n-1) to the
\* front of the tx buffer.
FillTxBuf(c, first, n) ==
  [c EXCEPT
     !.quic.tx.data = [i \in 1..QUIC_TX_DATALEN |->
                         IF i <= n THEN first + i - 1 ELSE @[i]],
     !.log = Append(@, [op |-> "ngtcp2_conn_write_aggregate_pkt", nwrite |-> n])]

\* The part of write_quic after the blocked descriptor is out of the way.
write_quic_aggregate(c, nwrite, remote, gso_size, k2, first, expiry, ts) ==
  IF nwrite < 0
    THEN [c EXCEPT !.rv = -1,
                   !.log = Append(@, [op |-> "ngtcp2_conn_write_aggregate_pkt",
                                      nwrite |-> nwrite])]
    ELSE LET c1 == quic_restart_pkt_timer(FillTxBuf(c, first, nwrite), expiry, ts)
         IN  IF nwrite = 0
               THEN [c1 EXCEPT !.rv = 0]
               ELSE [write_udp_or_blocked(c1, remote, 0, nwrite, gso_size, k2)
                       EXCEPT !.rv = 0]

write_quic_NoBlockedReturn(c, k1, nwrite, remote, gso_size, k2, first, expiry, ts) ==
  LET c0 == [ev_io_stop_wev(c) EXCEPT !.log = <<[op |-> "write_quic"]>>]
  IN  IF c0.quic.close_requested
        THEN [c0 EXCEPT !.rv = -1]
        ELSE IF c0.quic.tx.send_blocked
          THEN write_quic_aggregate(send_blocked_packet(c0, k1), nwrite, remote,
                                    gso_size, k2, first, expiry, ts)
          ELSE write_quic_aggregate(c0, nwrite, remote, gso_size, k2, first,
                                    expiry, ts)

\* Client::write_quic, the whole handler.  k1: bytes the OS accepts of the
\* blocked descriptor; nwrite, remote, gso_size: what the state machine's
\* aggregate write yields; k2: bytes the OS accepts of that aggregate.
write_quic(c, k1, nwrite, remote, gso_size, k2, first, expiry, ts) ==
  LET c0 == [ev_io_stop_wev(c) EXCEPT !.log = <<[op |-> "write_quic"]>>]
  IN  IF c0.quic.close_requested
        THEN [c0 EXCEPT !.rv = -1]
        ELSE IF c0.quic.tx.send_blocked
          THEN LET c1 == send_blocked_packet(c0, k1)
               IN  IF c1.rv # 0
                     THEN [c1 EXCEPT !.rv = -1]
                     ELSE IF c1.quic.tx.send_blocked
                       THEN [c1 EXCEPT !.rv = 0]
                       ELSE write_quic_aggregate(c1, nwrite, remote, gso_size,
                                                 k2, first, expiry, ts)
          ELSE write_quic_aggregate(c0, nwrite, remote, gso_size, k2, first,
                                    expiry, ts)

\* Client::quic_make_http3_session: construct Http3Session number id; when its
\* init_conn fails return -1 and keep the old session, else session = the new one.
quic_make_http3_session(c, id, init_conn_rv) ==
  LET c1 == [c EXCEPT !.h3_made = @ + 1,
                      !.log = Append(@, [op |-> "Http3Session", id |-> id])]
  IN  IF init_conn_rv = -1
        THEN [c1 EXCEPT !.rv = -1]
        ELSE [c1 EXCEPT !.session = id, !.rv = 0]

recv_rx_key_AnyLevel(c, level, id, init_conn_rv) ==
  LET c0 == [c EXCEPT !.log = <<[op |-> "recv_rx_key", level |-> level]>>]
      c1 == quic_make_http3_session(c0, id, init_conn_rv)
  IN  IF c1.rv # 0
        THEN [c1 EXCEPT !.rv = NGTCP2_ERR_CALLBACK_FAILURE]
        ELSE [c1 EXCEPT !.rv = 0]

\* recv_rx_key callback: only the 1-RTT level makes the HTTP/3 session.
recv_rx_key(c, level, id, init_conn_rv) ==
  LET c0 == [c EXCEPT !.log = <<[op |-> "recv_rx_key", level |-> level]>>]
  IN  IF level # NGTCP2_ENCRYPTION_LEVEL_1RTT
        THEN [c0 EXCEPT !.rv = 0]
        ELSE LET c1 == quic_make_http3_session(c0, id, init_conn_rv)
             IN  IF c1.rv # 0
                   THEN [c1 EXCEPT !.rv = NGTCP2_ERR_CALLBACK_FAILURE]
                   ELSE [c1 EXCEPT !.rv = 0]

ExpiryValues == (0..MaxExpiry) \cup {TSTAMP_MAX}

ClientInit ==
  [ alive |-> TRUE,
    in_worker |-> TRUE,
    quic |-> [ conn |-> TRUE,
               close_requested |-> FALSE,
               last_error |-> 0,
               pkt_timer |-> [active |-> FALSE, repeat |-> 0],
               tx |-> [ send_blocked |-> FALSE,
                        blocked |-> [remote_addr |-> NoAddr, off |-> 0,
                                     len |-> 0, gso_size |-> 0],
                        data |-> [i \in 1..QUIC_TX_DATALEN |-> 0] ] ],
    session |-> 0,
    h3_made |-> 0,
    wev |-> FALSE,
    fd_out |-> <<>>,
    assert_failed |-> {},
    rv |-> 0,
    log |-> <<>> ]

\* conn.tx_next: id of the next byte the state machine writes; conn.expiry: what
\* ngtcp2_conn_get_expiry reports; conn.rx_keys: the receive-key install events
\* delivered so far, in order.
QuicInit ==
  /\ client = ClientInit
  /\ conn = [tx_next |-> 1, expiry |-> TSTAMP_MAX, rx_keys |-> <<>>]
  /\ now = 0

\* Whether write_quic gets as far as asking the state machine for an aggregate
\* when the OS accepts k1 bytes of the blocked descriptor.
ReachesAggregate(c, k1) ==
  HasOp(write_quic(c, k1, 0, NoAddr, 0, 0, 1, TSTAMP_MAX, 0).log,
        "ngtcp2_conn_write_aggregate_pkt")

\* The write handler runs (writecb -> do_write -> write_quic).
WriteQuic ==
  /\ client.alive
  /\ \E k1 \in 0..(IF client.quic.tx.send_blocked
                      THEN client.quic.tx.blocked.len ELSE 0) :
       IF ReachesAggregate(client, k1)
         THEN \E nwrite \in -1..Min(QUIC_TX_DATALEN, MaxTxBytes + 1 - conn.tx_next),
                 expiry \in ExpiryValues :
                \E remote \in (IF nwrite > 0 THEN Remotes ELSE {NoAddr}),
                   gso_size \in (IF nwrite > 0 THEN GsoSizes ELSE {0}),
                   k2 \in 0..(IF nwrite > 0 THEN nwrite ELSE 0) :
                  /\ client' = write_quic(client, k1, nwrite, remote, gso_size,
                                          k2, conn.tx_next, expiry, now)
                  /\ conn' = IF nwrite >= 0
                               THEN [conn EXCEPT !.tx_next = @ + nwrite,
                                                 !.expiry = expiry]
                               ELSE conn
         ELSE /\ client' = write_quic(client, k1, 0, NoAddr, 0, 0,
                                      conn.tx_next, conn.expiry, now)
              /\ UNCHANGED conn
  /\ UNCHANGED <<now, notQuic>>

\* Client::terminate_session: the client asks for the connection to be closed.
TerminateSession ==
  /\ client.alive
  /\ ~client.quic.close_requested
  /\ client' = signal_write([client EXCEPT
                               !.quic.close_requested = TRUE,
                               !.log = <<[op |-> "terminate_session"]>>])
  /\ UNCHANGED <<conn, now, notQuic>>

\* The clock advances.
Tick ==
  /\ now < MaxNow
  /\ now' = now + 1
  /\ client' = [client EXCEPT !.log = <<>>]
  /\ UNCHANGED <<conn, notQuic>>

\* The state machine installs a receive key and calls recv_rx_key; after a
\* callback failure it delivers nothing more.
RecvRxKey ==
  /\ client.alive
  /\ Len(conn.rx_keys) < MaxRxKeys
  /\ client.rv # NGTCP2_ERR_CALLBACK_FAILURE
  /\ \E level \in EncryptionLevels :
       \E init_conn_rv \in (IF level = NGTCP2_ENCRYPTION_LEVEL_1RTT
                              THEN {0, -1} ELSE {0}) :
         /\ client' = recv_rx_key(client, level, Len(conn.rx_keys) + 1,
                                  init_conn_rv)
         /\ conn' = [conn EXCEPT !.rx_keys =
                       Append(@, [level |-> level, init_conn_rv |-> init_conn_rv])]
  /\ UNCHANGED <<now, notQuic>>

\* ngtcp2_conn_handle_expiry: 0, or a library error code.
HandleExpiryResults == {0, -1, -2}

\* quic_close_connection that registers what the OS did not accept as a blocked
\* send.
quic_close_connection_Blocked(c, nwrite, remote, k) ==
  IF ~c.quic.conn
    THEN c
    ELSE LET c1 == [c EXCEPT !.log = Append(@,
                      [op |-> "ngtcp2_conn_write_connection_close",
                       ccerr |-> c.quic.last_error, nwrite |-> nwrite])]
         IN  IF nwrite <= 0
               THEN c1
               ELSE write_udp_or_blocked(c1, remote, 0, nwrite, nwrite, k)

\* Client::quic_close_connection: nothing without a connection; else one
\* ngtcp2_conn_write_connection_close carrying quic.last_error, and, when it
\* produced a packet (nwrite > 0), one write_udp whose outcome is not examined.
quic_close_connection(c, nwrite, remote, k) ==
  IF ~c.quic.conn
    THEN c
    ELSE LET c1 == [c EXCEPT !.log = Append(@,
                      [op |-> "ngtcp2_conn_write_connection_close",
                       ccerr |-> c.quic.last_error, nwrite |-> nwrite])]
         IN  IF nwrite <= 0
               THEN c1
               ELSE write_udp(c1, remote, [i \in 1..nwrite |-> 0], nwrite, k)

\* Client::fail: the connection is closed, best effort.
fail(c, nwrite, remote, k) ==
  quic_close_connection([c EXCEPT !.log = Append(@, [op |-> "fail"])],
                        nwrite, remote, k)

\* Worker::free_client: the Client leaves its worker's list of clients.
free_client(c) ==
  [c EXCEPT !.in_worker = FALSE, !.log = Append(@, [op |-> "free_client"])]

\* delete c: the Client is destroyed; nothing of the object remains but the
\* trace of the handler that destroyed it.
delete(c) ==
  [ClientInit EXCEPT !.alive = FALSE, !.in_worker = c.in_worker,
                     !.quic.conn = FALSE,
                     !.log = Append(c.log, [op |-> "delete"])]

\* Client::quic_pkt_timeout that does not record the library error.
quic_pkt_timeout_NoLastError(c, rv, ts) ==
  LET c1 == [c EXCEPT !.log = Append(@, [op |-> "ngtcp2_conn_handle_expiry",
                                         ts |-> ts, rv |-> rv])]
  IN  IF rv # 0
        THEN [c1 EXCEPT !.rv = -1]
        ELSE [signal_write(c1) EXCEPT !.rv = 0]

\* Client::quic_pkt_timeout: ngtcp2_conn_handle_expiry(quic.conn, now); on an
\* error the library error is set in quic.last_error and -1 is returned, else
\* signal_write and 0.
quic_pkt_timeout(c, rv, ts) ==
  LET c1 == [c EXCEPT !.log = Append(@, [op |-> "ngtcp2_conn_handle_expiry",
                                         ts |-> ts, rv |-> rv])]
  IN  IF rv # 0
        THEN [c1 EXCEPT !.quic.last_error = rv, !.rv = -1]
        ELSE [signal_write(c1) EXCEPT !.rv = 0]

\* quic_pkt_timeout_cb, the whole handler of the packet timer.
quic_pkt_timeout_cb(c, rv, ts, nwrite, remote, k) ==
  LET c0 == [c EXCEPT !.log = <<[op |-> "quic_pkt_timeout_cb"]>>]
      c1 == quic_pkt_timeout(c0, rv, ts)
  IN  IF c1.rv # 0
        THEN delete(free_client(fail(c1, nwrite, remote, k)))
        ELSE c1

\* The packet timer fires.  rv: what the state machine's expiry handling
\* returns; nwrite, remote, k: the CONNECTION_CLOSE packet the state machine
\* produces and the bytes of it the OS accepts.  The expiry the state machine
\* reports afterwards is drawn by the write handler, which is what reads it.
TimerFire ==
  /\ client.alive
  /\ client.quic.pkt_timer.active
  /\ \E rv \in HandleExpiryResults :
       \E nwrite \in (IF rv = 0 THEN {0} ELSE -1..1) :
         \E remote \in (IF nwrite > 0 THEN Remotes ELSE {NoAddr}),
            k \in 0..(IF nwrite > 0 THEN nwrite ELSE 0) :
           client' = quic_pkt_timeout_cb(client, rv, now, nwrite, remote, k)
  /\ UNCHANGED <<conn, now, notQuic>>

(***************************************************************************)
(* HTTP/2 downstream connection (shrpx_http2_downstream_connection.cc) on  *)
(* one Http2Session                                                        *)
(***************************************************************************)
\* response body bytes the session delivers, all streams together
MaxBody == 1
\* width of size_t in bits (unconsumed_body_length wraps modulo 2^SizeBits)
SizeBits == 3

\* Http2DownstreamConnection objects; connection i carries Downstream i
DConns == {1, 2}
SizeMod == 2 ^ SizeBits

\* Http2SessionState
DISCONNECTED == "DISCONNECTED"
CONNECTING == "CONNECTING"
CONNECTED == "CONNECTED"
DISCONNECTING == "DISCONNECTING"
\* ConnectionCheck
CHECK_NONE == "NONE"
CHECK_REQUIRED == "REQUIRED"
CHECK_STARTED == "STARTED"
\* DownstreamState
INITIAL == "INITIAL"
HEADER_COMPLETE == "HEADER_COMPLETE"
MSG_COMPLETE == "MSG_COMPLETE"
MSG_RESET == "MSG_RESET"
MSG_BAD_HEADER == "MSG_BAD_HEADER"
STREAM_CLOSED == "STREAM_CLOSED"
\* ConnectProto
CONNECT_PROTO_NONE == "NONE"
CONNECT_PROTO_WEBSOCKET == "WEBSOCKET"
\* nghttp2 error codes for RST_STREAM
NGHTTP2_NO_ERROR == "NO_ERROR"
NGHTTP2_INTERNAL_ERROR == "INTERNAL_ERROR"
\* the error_code argument detach_downstream leaves to its default
DEFAULT_ERROR_CODE == "default argument"


\* Stream ids are the odd numbers 1, 3, ...; h2.streams[k] is stream 2k-1.
StreamIdx(stream_id) == (stream_id + 1) \div 2
Log(h, e) == [h EXCEPT !.log = Append(@, e)]
DownstreamOf(h, i) == h.dconns[i].downstream_
Linked(h, i) == \E k \in 1..Len(h.session.dconns) : h.session.dconns[k] = i
LinkCount(h, i) ==
  Cardinality({k \in 1..Len(h.session.dconns) : h.session.dconns[k] = i})

\* Http2Session::signal_write
session_signal_write(h) == Log(h, [op |-> "signal_write"])

\* Http2Session::consume: give len bytes of flow-control credit back on the stream.
session_consume(h, stream_id, len) ==
  [Log(h, [op |-> "consume", stream_id |-> stream_id, len |-> len])
     EXCEPT !.streams[StreamIdx(stream_id)].consumed = @ + len,
            !.rv = 0]

\* Http2Session::submit_rst_stream
session_submit_rst_stream(h, stream_id, error_code, rv) ==
  [Log(h, [op |-> "submit_rst_stream", stream_id |-> stream_id,
           error_code |-> error_code])
     EXCEPT !.rv = rv]

\* Http2DownstreamConnection::attach_stream_data / detach_stream_data
detach_stream_data(h, i) ==
  IF h.dconns[i].sd_ # 0
    THEN [h EXCEPT !.dconns[i].sd_ = 0,
                   !.streams[StreamIdx(h.dconns[i].sd_)].dconn = 0]
    ELSE h
attach_stream_data(h, i, stream_id) ==
  [detach_stream_data(h, i) EXCEPT !.dconns[i].sd_ = stream_id,
                                   !.streams[StreamIdx(stream_id)].dconn = i]

\* Http2Session::add_downstream_connection / remove_downstream_connection
add_downstream_connection(h, i) ==
  [Log(h, [op |-> "add_downstream_connection", dconn |-> i])
     EXCEPT !.session.dconns = Append(@, i)]
remove_downstream_connection(h, i) ==
  detach_stream_data(
    [Log(h, [op |-> "remove_downstream_connection", dconn |-> i])
       EXCEPT !.session.dconns = SelectSeq(@, LAMBDA j : j # i)],
    i)

\* Http2Session::can_push_request: the session is established and no connection
\* check is in progress.
can_push_request(h, d) ==
  /\ h.session.state = CONNECTED
  /\ h.session.connection_check_state = CHECK_NONE

\* Http2Session::start_checking_connection
start_checking_connection(h) ==
  [Log(h, [op |-> "start_checking_connection"])
     EXCEPT !.session.connection_check_state =
              IF h.session.state = CONNECTED /\ @ = CHECK_REQUIRED
                THEN CHECK_STARTED ELSE @]

\* Http2Session::submit_request: on success open the next stream, bind its
\* StreamData to the connection and give the Downstream its stream id.
session_submit_request(h, i, with_data_prd, rv) ==
  LET sid == h.session.next_stream_id
      h0  == Log(h, [op |-> "submit_request", dconn |-> i, rv |-> rv,
                     data_prd |-> with_data_prd,
                     state |-> h.session.state,
                     check |-> h.session.connection_check_state])
  IN  IF rv # 0
        THEN [h0 EXCEPT !.rv = -1]
        ELSE [attach_stream_data(
                [h0 EXCEPT !.session.next_stream_id = sid + 2,
                           !.streams = Append(@, [dconn |-> 0, delivered |-> 0,
                                                  consumed |-> 0])],
                i, sid)
                EXCEPT !.downstreams[DownstreamOf(h, i)].stream_id = sid,
                       !.rv = 0]

submit_rst_stream_NoStateGuard(h, i, d, error_code, rst_rv) ==
  IF h.downstreams[d].stream_id # -1
       /\ h.downstreams[d].response_state
            \notin {MSG_RESET, MSG_BAD_HEADER, MSG_COMPLETE}
    THEN session_submit_rst_stream(h, h.downstreams[d].stream_id, error_code,
                                   rst_rv)
    ELSE [h EXCEPT !.rv = -1]

\* Http2DownstreamConnection::submit_rst_stream
submit_rst_stream(h, i, d, error_code, rst_rv) ==
  IF h.session.state = CONNECTED /\ h.downstreams[d].stream_id # -1
       /\ h.downstreams[d].response_state
            \notin {MSG_RESET, MSG_BAD_HEADER, MSG_COMPLETE}
    THEN session_submit_rst_stream(h, h.downstreams[d].stream_id, error_code,
                                   rst_rv)
    ELSE [h EXCEPT !.rv = -1]

\* attach_downstream that does not take the Downstream.
attach_downstream_NoBind(h, i, d) ==
  LET h1 == session_signal_write(
              add_downstream_connection(
                [h EXCEPT !.log = <<[op |-> "attach_downstream", dconn |-> i]>>],
                i))
  IN  [h1 EXCEPT !.dconns[i].life = "attached", !.rv = 0]

\* Http2DownstreamConnection::attach_downstream
attach_downstream(h, i, d) ==
  LET h1 == session_signal_write(
              add_downstream_connection(
                [h EXCEPT !.log = <<[op |-> "attach_downstream", dconn |-> i]>>],
                i))
  IN  [h1 EXCEPT !.dconns[i].downstream_ = d,
                 !.dconns[i].life = "attached",
                 !.downstreams[d].rtimer = TRUE,
                 !.downstreams[d].req.upgrade_request =
                    IF h.downstreams[d].req.method # "CONNECT"
                         /\ h.downstreams[d].req.connect_proto = CONNECT_PROTO_NONE
                      THEN FALSE ELSE @,
                 !.rv = 0]

detach_downstream_KeepResidual(h, i, rst_rv) ==
  LET d  == DownstreamOf(h, i)
      h0 == [h EXCEPT !.log = <<[op |-> "detach_downstream", dconn |-> i]>>]
      h1 == IF h.downstreams[d].stream_id # -1
              THEN LET a == submit_rst_stream(h0, i, d, DEFAULT_ERROR_CODE, rst_rv)
                       b == IF a.rv = 0 THEN session_signal_write(a) ELSE a
                   IN  session_signal_write(b)
              ELSE h0
  IN  [h1 EXCEPT !.downstreams[d].rtimer = FALSE,
                 !.downstreams[d].wtimer = FALSE,
                 !.dconns[i].downstream_ = 0,
                 !.dconns[i].life = "detached"]

\* Http2DownstreamConnection::detach_downstream
detach_downstream(h, i, rst_rv) ==
  LET d  == DownstreamOf(h, i)
      h0 == [h EXCEPT !.log = <<[op |-> "detach_downstream", dconn |-> i]>>]
      h1 == IF h.downstreams[d].stream_id # -1
              THEN LET a == submit_rst_stream(h0, i, d, DEFAULT_ERROR_CODE, rst_rv)
                       b == IF a.rv = 0 THEN session_signal_write(a) ELSE a
                       c == session_consume(b, h.downstreams[d].stream_id,
                                            h.downstreams[d].unconsumed_body_length)
                   IN  session_signal_write(
                         [c EXCEPT !.downstreams[d].unconsumed_body_length = 0])
              ELSE h0
  IN  [h1 EXCEPT !.downstreams[d].rtimer = FALSE,
                 !.downstreams[d].wtimer = FALSE,
                 !.dconns[i].downstream_ = 0,
                 !.dconns[i].life = "detached"]

Destructor_NoRemove(h, i, rst_rv) ==
  [h EXCEPT !.log = <<[op |-> "~Http2DownstreamConnection", dconn |-> i]>>,
            !.dconns[i].life = "deleted"]

\* ~Http2DownstreamConnection that resets every stream with INTERNAL_ERROR.
Destructor_AlwaysInternalError(h, i, rst_rv) ==
  LET d  == DownstreamOf(h, i)
      h0 == [h EXCEPT !.log = <<[op |-> "~Http2DownstreamConnection", dconn |-> i]>>]
      h1 == IF d # 0
              THEN LET t == [h0 EXCEPT !.downstreams[d].rtimer = FALSE,
                                       !.downstreams[d].wtimer = FALSE]
                       error_code ==
                         NGHTTP2_INTERNAL_ERROR
                   IN  IF h.session.state = CONNECTED
                            /\ h.downstreams[d].stream_id # -1
                         THEN LET a == submit_rst_stream(t, i, d, error_code, rst_rv)
                                  c == session_consume(
                                         a, h.downstreams[d].stream_id,
                                         h.downstreams[d].unconsumed_body_length)
                              IN  session_signal_write(
                                    [c EXCEPT
                                       !.downstreams[d].unconsumed_body_length = 0])
                         ELSE t
              ELSE h0
  IN  [remove_downstream_connection(h1, i)
         EXCEPT !.dconns[i].life = "deleted",
                !.dconns[i].downstream_ = 0]

\* Http2DownstreamConnection::~Http2DownstreamConnection
Destructor(h, i, rst_rv) ==
  LET d  == DownstreamOf(h, i)
      h0 == [h EXCEPT !.log = <<[op |-> "~Http2DownstreamConnection", dconn |-> i]>>]
      h1 == IF d # 0
              THEN LET t == [h0 EXCEPT !.downstreams[d].rtimer = FALSE,
                                       !.downstreams[d].wtimer = FALSE]
                       error_code ==
                         IF h.downstreams[d].request_state = STREAM_CLOSED
                              /\ h.downstreams[d].upgraded
                           THEN NGHTTP2_NO_ERROR
                           ELSE NGHTTP2_INTERNAL_ERROR
                   IN  IF h.session.state = CONNECTED
                            /\ h.downstreams[d].stream_id # -1
                         THEN LET a == submit_rst_stream(t, i, d, error_code, rst_rv)
                                  c == session_consume(
                                         a, h.downstreams[d].stream_id,
                                         h.downstreams[d].unconsumed_body_length)
                              IN  session_signal_write(
                                    [c EXCEPT
                                       !.downstreams[d].unconsumed_body_length = 0])
                         ELSE t
              ELSE h0
  IN  [remove_downstream_connection(h1, i)
         EXCEPT !.dconns[i].life = "deleted",
                !.dconns[i].downstream_ = 0]

DataProviderExpected_NoBodyIntent(req) ==
  \/ req.method = "CONNECT"
  \/ req.connect_proto # CONNECT_PROTO_NONE
  \/ req.transfer_encoding
  \/ req.content_length > 0

\* push_request_headers: a request body is expected, so a data provider is passed
DataProviderExpected(req) ==
  \/ req.method = "CONNECT"
  \/ req.connect_proto # CONNECT_PROTO_NONE
  \/ req.transfer_encoding
  \/ req.content_length > 0
  \/ req.http2_expect_body

\* push_request_headers once the session can take the request
push_request_headers_submit(h, i, d, submit_rv) ==
  LET req == h.downstreams[d].req
  IN  IF req.connect_proto # CONNECT_PROTO_NONE /\ ~h.session.allow_connect_proto
        THEN [h EXCEPT !.rv = -1]
        ELSE LET a == session_submit_request(h, i, DataProviderExpected(req),
                                             submit_rv)
             IN  IF a.rv # 0
                   THEN [a EXCEPT !.rv = -1]
                   ELSE [session_signal_write(
                           IF DataProviderExpected(req)
                             THEN [a EXCEPT !.downstreams[d].wtimer = TRUE]
                             ELSE a)
                           EXCEPT !.rv = 0]

push_request_headers_NoGuard(h, i, submit_rv) ==
  LET d  == DownstreamOf(h, i)
      h0 == Log(h, [op |-> "push_request_headers", dconn |-> i])
  IN  IF d = 0
        THEN [h0 EXCEPT !.rv = 0]
        ELSE push_request_headers_submit(
               [h0 EXCEPT !.downstreams[d].request_pending = FALSE],
               i, d, submit_rv)

push_request_headers_KeepPending(h, i, submit_rv) ==
  LET d  == DownstreamOf(h, i)
      h0 == Log(h, [op |-> "push_request_headers", dconn |-> i])
  IN  IF d = 0
        THEN [h0 EXCEPT !.rv = 0]
        ELSE IF ~can_push_request(h, d)
          THEN [start_checking_connection(
                  [h0 EXCEPT !.downstreams[d].request_pending = TRUE])
                  EXCEPT !.rv = 0]
          ELSE push_request_headers_submit(h0, i, d, submit_rv)

\* Http2DownstreamConnection::push_request_headers
push_request_headers(h, i, submit_rv) ==
  LET d  == DownstreamOf(h, i)
      h0 == Log(h, [op |-> "push_request_headers", dconn |-> i])
  IN  IF d = 0
        THEN [h0 EXCEPT !.rv = 0]
        ELSE IF ~can_push_request(h, d)
          THEN [start_checking_connection(
                  [h0 EXCEPT !.downstreams[d].request_pending = TRUE])
                  EXCEPT !.rv = 0]
          ELSE push_request_headers_submit(
                 [h0 EXCEPT !.downstreams[d].request_pending = FALSE],
                 i, d, submit_rv)

resume_read_NoDecrement(h, i, consumed) ==
  LET d  == DownstreamOf(h, i)
      h0 == [h EXCEPT !.log = <<[op |-> "resume_read", dconn |-> i,
                                 consumed |-> consumed]>>,
                      !.rv = 0]
  IN  IF h.session.state # CONNECTED
        THEN h0
        ELSE IF d = 0 \/ h.downstreams[d].stream_id = -1
          THEN h0
          ELSE IF consumed > 0
            THEN LET a == session_consume(h0, h.downstreams[d].stream_id, consumed)
                 IN  IF a.rv # 0
                       THEN [a EXCEPT !.rv = -1]
                       ELSE [session_signal_write(a) EXCEPT !.rv = 0]
            ELSE h0

\* Http2DownstreamConnection::resume_read
resume_read(h, i, consumed) ==
  LET d  == DownstreamOf(h, i)
      h0 == [h EXCEPT !.log = <<[op |-> "resume_read", dconn |-> i,
                                 consumed |-> consumed]>>,
                      !.rv = 0]
  IN  IF h.session.state # CONNECTED
        THEN h0
        ELSE IF d = 0 \/ h.downstreams[d].stream_id = -1
          THEN h0
          ELSE IF consumed > 0
            THEN LET a == session_consume(h0, h.downstreams[d].stream_id, consumed)
                 IN  IF a.rv # 0
                       THEN [a EXCEPT !.rv = -1]
                       ELSE [session_signal_write(
                               [a EXCEPT
                                  !.downstreams[d].unconsumed_body_length =
                                     (@ - consumed) % SizeMod])
                               EXCEPT !.rv = 0]
            ELSE h0

\* Http2Session::submit_pending_requests: walk the attached connections in list
\* order and push the request headers of each Downstream marked request_pending.
\* failing is the set of connections whose submit_request fails.
RECURSIVE submit_pending_from(_, _, _, _)
submit_pending_from(h, list, k, failing) ==
  IF k > Len(list)
    THEN h
    ELSE LET i == list[k]
             d == DownstreamOf(h, i)
         IN  IF d # 0 /\ h.downstreams[d].request_pending
               THEN LET a == push_request_headers(
                               h, i, IF i \in failing THEN -1 ELSE 0)
                    IN  submit_pending_from(
                          Log(a, [op |-> "push_request_headers returned",
                                  dconn |-> i, rv |-> a.rv]),
                          list, k + 1, failing)
               ELSE submit_pending_from(h, list, k + 1, failing)
submit_pending_requests(h, failing) ==
  submit_pending_from(h, h.session.dconns, 1, failing)

\* The requests a Downstream can carry
GetReq ==
  [method |-> "GET", connect_proto |-> CONNECT_PROTO_NONE,
   upgrade_request |-> FALSE, transfer_encoding |-> FALSE,
   content_length |-> 0, http2_expect_body |-> FALSE]
UpgradeReq == [GetReq EXCEPT !.upgrade_request = TRUE]
WebSocketReq ==
  [GetReq EXCEPT !.connect_proto = CONNECT_PROTO_WEBSOCKET,
                 !.upgrade_request = TRUE]
Requests == {GetReq, UpgradeReq, WebSocketReq}

\* A Downstream as the upstream creates it
NewDownstream(req) ==
  [req |-> req, stream_id |-> -1, request_pending |-> FALSE,
   push_called |-> FALSE, request_state |-> INITIAL, response_state |-> INITIAL,
   upgraded |-> FALSE, unconsumed_body_length |-> 0, response_datalen |-> 0,
   rtimer |-> FALSE, wtimer |-> FALSE]

Http2Init ==
  [session |-> [state |-> DISCONNECTED,
                connection_check_state |-> CHECK_NONE,
                dconns |-> <<>>,
                next_stream_id |-> 1,
                allow_connect_proto |-> FALSE],
   streams |-> <<>>,
   dconns |-> [i \in DConns |->
                 [life |-> "unborn", downstream_ |-> 0, sd_ |-> 0]],
   downstreams |-> [d \in DConns |-> NewDownstream(GetReq)],
   rv |-> 0,
   log |-> <<>>]

H2Init == h2 = Http2Init

\* A connection that was detached is destroyed before the handler that detached
\* it does anything else.
NoDetachedDconn == \A i \in DConns : h2.dconns[i].life # "detached"

\* Http2DownstreamConnection::Http2DownstreamConnection
NewDconn(i) ==
  /\ NoDetachedDconn
  /\ h2.dconns[i].life = "unborn"
  /\ h2' = [h2 EXCEPT !.dconns[i] = [life |-> "new", downstream_ |-> 0, sd_ |-> 0],
                      !.log = <<[op |-> "Http2DownstreamConnection", dconn |-> i]>>,
                      !.rv = 0]
  /\ UNCHANGED notH2

\* The upstream creates Downstream i for a request and attaches it.
AttachDownstream(i) ==
  /\ NoDetachedDconn
  /\ h2.dconns[i].life = "new"
  /\ h2' \in {attach_downstream(
                [h2 EXCEPT !.downstreams[i] = NewDownstream(req)], i, i) :
              req \in Requests}
  /\ UNCHANGED notH2

\* The upstream pushes the request headers of an attached Downstream, once.
PushRequestHeaders(i) ==
  /\ NoDetachedDconn
  /\ h2.dconns[i].life = "attached"
  /\ ~h2.downstreams[DownstreamOf(h2, i)].push_called
  /\ h2' \in {push_request_headers(
                [h2 EXCEPT !.downstreams[DownstreamOf(h2, i)].push_called = TRUE,
                           !.log = <<>>],
                i, submit_rv) : submit_rv \in {0, -1}}
  /\ UNCHANGED notH2

\* The upstream reports response body bytes it has written to the client.
ResumeRead(i) ==
  /\ NoDetachedDconn
  /\ h2.dconns[i].life = "attached"
  /\ \E consumed \in 0..h2.downstreams[DownstreamOf(h2, i)].response_datalen :
       h2' = resume_read(
               [h2 EXCEPT !.downstreams[DownstreamOf(h2, i)].response_datalen =
                            @ - consumed],
               i, consumed)
  /\ UNCHANGED notH2

\* Downstream::detach_downstream_connection
DetachDownstream(i) ==
  /\ NoDetachedDconn
  /\ h2.dconns[i].life = "attached"
  /\ h2' \in {detach_downstream(h2, i, rst_rv) : rst_rv \in {0, -1}}
  /\ UNCHANGED notH2

\* The owner of the connection object drops it.
DestroyDconn(i) ==
  /\ h2.dconns[i].life \in {"new", "attached", "detached"}
  /\ h2' \in {Destructor(h2, i, rst_rv) : rst_rv \in {0, -1}}
  /\ UNCHANGED notH2

\* Http2Session::initiate_connection
StartConnect ==
  /\ NoDetachedDconn
  /\ h2.session.state = DISCONNECTED
  /\ h2' = [h2 EXCEPT !.session.state = CONNECTING,
                      !.log = <<[op |-> "initiate_connection"]>>,
                      !.rv = 0]
  /\ UNCHANGED notH2

\* Http2Session::connection_made: the session becomes CONNECTED and flushes the
\* pending requests.
SessionConnected ==
  /\ NoDetachedDconn
  /\ h2.session.state = CONNECTING
  /\ h2' \in {submit_pending_requests(
                [h2 EXCEPT !.session.state = CONNECTED,
                           !.session.connection_check_state = CHECK_NONE,
                           !.session.allow_connect_proto = allow,
                           !.log = <<[op |-> "connection_made"]>>,
                           !.rv = 0],
                failing) : allow \in BOOLEAN, failing \in SUBSET DConns}
  /\ UNCHANGED notH2

\* Http2Session::disconnect
SessionDisconnect ==
  /\ NoDetachedDconn
  /\ h2.session.state \in {CONNECTING, CONNECTED}
  /\ h2' = [h2 EXCEPT !.session.state = DISCONNECTING,
                      !.session.connection_check_state = CHECK_NONE,
                      !.log = <<[op |-> "disconnect"]>>,
                      !.rv = 0]
  /\ UNCHANGED notH2

\* The connection has been idle long enough that it must be checked before use.
CheckRequired ==
  /\ NoDetachedDconn
  /\ h2.session.state = CONNECTED
  /\ h2.session.connection_check_state = CHECK_NONE
  /\ h2' = [h2 EXCEPT !.session.connection_check_state = CHECK_REQUIRED,
                      !.log = <<[op |-> "connchk_timeout"]>>,
                      !.rv = 0]
  /\ UNCHANGED notH2

\* Http2Session::connection_alive: the check succeeded; flush the pending requests.
ConnectionAlive ==
  /\ NoDetachedDconn
  /\ h2.session.state = CONNECTED
  /\ h2.session.connection_check_state = CHECK_STARTED
  /\ h2' \in {submit_pending_requests(
                [h2 EXCEPT !.session.connection_check_state = CHECK_NONE,
                           !.log = <<[op |-> "connection_alive"]>>,
                           !.rv = 0],
                failing) : failing \in SUBSET DConns}
  /\ UNCHANGED notH2

\* The Downstream a stream's StreamData leads to (0 if none)
StreamDownstream(h, k) ==
  IF h.streams[k].dconn = 0 THEN 0 ELSE DownstreamOf(h, h.streams[k].dconn)

\* on_frame_recv_callback: response HEADERS arrive on a stream.
RecvResponseHeaders(k) ==
  /\ NoDetachedDconn
  /\ h2.session.state = CONNECTED
  /\ StreamDownstream(h2, k) # 0
  /\ h2.downstreams[StreamDownstream(h2, k)].response_state = INITIAL
  /\ h2' = [h2 EXCEPT
              !.downstreams[StreamDownstream(h2, k)].response_state = HEADER_COMPLETE,
              !.downstreams[StreamDownstream(h2, k)].rtimer = TRUE,
              !.log = <<[op |-> "on_response_headers", stream_id |-> 2 * k - 1]>>,
              !.rv = 0]
  /\ UNCHANGED notH2

\* The response body bytes delivered so far on streams 1..n of the table
RECURSIVE TotalDelivered(_, _)
TotalDelivered(h, n) ==
  IF n = 0 THEN 0 ELSE h.streams[n].delivered + TotalDelivered(h, n - 1)

\* on_data_chunk_recv_callback: len bytes of response body arrive on a stream.
\* With a Downstream behind the stream they are handed to the upstream and stay
\* unconsumed; without one the session consumes them at once.
RecvData(k) ==
  /\ NoDetachedDconn
  /\ h2.session.state = CONNECTED
  /\ \E len \in 1..(MaxBody - TotalDelivered(h2, Len(h2.streams))) :
       LET d  == StreamDownstream(h2, k)
           h0 == [h2 EXCEPT !.streams[k].delivered = @ + len,
                            !.log = <<[op |-> "on_data_chunk_recv",
                                       stream_id |-> 2 * k - 1, len |-> len]>>,
                            !.rv = 0]
       IN  IF d # 0
             THEN /\ h2.downstreams[d].response_state = HEADER_COMPLETE
                  /\ h2' = [h0 EXCEPT
                              !.downstreams[d].unconsumed_body_length =
                                 (@ + len) % SizeMod,
                              !.downstreams[d].response_datalen = @ + len,
                              !.downstreams[d].rtimer = TRUE]
             ELSE h2' = session_signal_write(session_consume(h0, 2 * k - 1, len))
  /\ UNCHANGED notH2

\* on_frame_recv_callback / on_stream_close_callback: the response ends, with
\* END_STREAM or with RST_STREAM from the origin.
ResponseEnd(k) ==
  /\ NoDetachedDconn
  /\ h2.session.state = CONNECTED
  /\ StreamDownstream(h2, k) # 0
  /\ h2.downstreams[StreamDownstream(h2, k)].response_state
       \in {INITIAL, HEADER_COMPLETE}
  /\ \E st \in {MSG_COMPLETE, MSG_RESET} :
       /\ st = MSG_COMPLETE =>
            h2.downstreams[StreamDownstream(h2, k)].response_state = HEADER_COMPLETE
       /\ h2' = [h2 EXCEPT
                   !.downstreams[StreamDownstream(h2, k)].response_state = st,
                   !.log = <<[op |-> "on_response_end", stream_id |-> 2 * k - 1]>>,
                   !.rv = 0]
  /\ UNCHANGED notH2

H2Next ==
  \/ \E i \in DConns : NewDconn(i)
  \/ \E i \in DConns : AttachDownstream(i)
  \/ \E i \in DConns : PushRequestHeaders(i)
  \/ \E i \in DConns : ResumeRead(i)
  \/ \E i \in DConns : DetachDownstream(i)
  \/ \E i \in DConns : DestroyDconn(i)
  \/ StartConnect
  \/ SessionConnected
  \/ SessionDisconnect
  \/ CheckRequired
  \/ ConnectionAlive
  \/ \E k \in 1..Len(h2.streams) : RecvResponseHeaders(k)
  \/ \E k \in 1..Len(h2.streams) : RecvData(k)
  \/ \E k \in 1..Len(h2.streams) : ResponseEnd(k)


(***************************************************************************)
(* The request data provider (http2_data_read_callback)                    *)
(***************************************************************************)
\* bytes readable in the Downstream's request buffer (input->rleft())
MaxReqBuf == 2
\* the length the session asks the data provider for
MaxReadLen == 2

NGHTTP2_ERR_DEFERRED == -508
NGHTTP2_ERR_CALLBACK_FAILURE == -902
NGHTTP2_ERR_NOMEM == -901
NGHTTP2_ERR_INVALID_ARGUMENT == -501
NGHTTP2_DATA_FLAG_EOF == "EOF"
NGHTTP2_DATA_FLAG_NO_END_STREAM == "NO_END_STREAM"
NGHTTP2_DATA_FLAG_NO_COPY == "NO_COPY"

\* nghttp2_is_fatal
nghttp2_is_fatal(lib_error_code) == lib_error_code < -900

\* What one call of the data provider sees: whether the stream has StreamData,
\* a connection and a Downstream behind it, the Downstream's request buffer and
\* states, its trailers ("none", "stripped": every field is removed by
\* HDOP_STRIP_ALL, "kept"), and what nghttp2_submit_trailer would return.
DataReadInputs ==
  [sd : BOOLEAN, dconn : BOOLEAN, downstream : BOOLEAN,
   rleft : 0..MaxReqBuf, length : 0..MaxReadLen,
   request_state : {HEADER_COMPLETE, MSG_COMPLETE},
   upgrade_request : BOOLEAN,
   response_state : {INITIAL, HEADER_COMPLETE},
   upgraded : BOOLEAN,
   trailers : {"none", "stripped", "kept"},
   submit_trailer_rv : {0, NGHTTP2_ERR_INVALID_ARGUMENT, NGHTTP2_ERR_NOMEM},
   wtimer : BOOLEAN]

DataReadOut(rv, data_flags, wtimer, log) ==
  [rv |-> rv, data_flags |-> data_flags, wtimer |-> wtimer, log |-> log]

http2_data_read_callback_NoUpgradeCheck(in) ==
  IF ~in.sd \/ ~in.dconn \/ ~in.downstream
    THEN DataReadOut(NGHTTP2_ERR_DEFERRED, {}, in.wtimer, <<>>)
    ELSE
      LET nread == Min(in.rleft, in.length)
          eof   == in.rleft = nread /\ in.request_state = MSG_COMPLETE
          flags == {NGHTTP2_DATA_FLAG_NO_COPY}
                     \cup (IF eof THEN {NGHTTP2_DATA_FLAG_EOF} ELSE {})
      IN  IF nread = 0 /\ ~eof
            THEN DataReadOut(NGHTTP2_ERR_DEFERRED, flags, FALSE, <<>>)
            ELSE DataReadOut(nread, flags, in.wtimer, <<>>)

\* http2_data_read_callback that goes on without a Downstream.
http2_data_read_callback_NoDownstreamCheck(in) ==
  IF ~in.sd \/ ~in.dconn
    THEN DataReadOut(NGHTTP2_ERR_DEFERRED, {}, in.wtimer, <<>>)
    ELSE IF FALSE
      THEN DataReadOut(NGHTTP2_ERR_DEFERRED, {}, in.wtimer, <<>>)
      ELSE
        LET nread == Min(in.rleft, in.length)
            input_empty == in.rleft = nread
            eof ==
              /\ input_empty
              /\ in.request_state = MSG_COMPLETE
              /\ \/ ~in.upgrade_request
                 \/ /\ in.response_state = HEADER_COMPLETE
                    /\ ~in.upgraded
            submits == eof /\ in.trailers = "kept"
            log == IF submits
                     THEN <<[op |-> "nghttp2_submit_trailer",
                             rv |-> in.submit_trailer_rv]>>
                     ELSE <<>>
            flags ==
              {NGHTTP2_DATA_FLAG_NO_COPY}
                \cup (IF eof THEN {NGHTTP2_DATA_FLAG_EOF} ELSE {})
                \cup (IF submits /\ in.submit_trailer_rv = 0
                        THEN {NGHTTP2_DATA_FLAG_NO_END_STREAM} ELSE {})
        IN  IF submits /\ in.submit_trailer_rv # 0
                 /\ nghttp2_is_fatal(in.submit_trailer_rv)
              THEN DataReadOut(NGHTTP2_ERR_CALLBACK_FAILURE, flags, in.wtimer, log)
              ELSE IF nread = 0 /\ NGHTTP2_DATA_FLAG_EOF \notin flags
                THEN DataReadOut(NGHTTP2_ERR_DEFERRED, flags, FALSE, log)
                ELSE DataReadOut(nread, flags, in.wtimer, log)

\* http2_data_read_callback that announces trailers whatever became of their
\* submission.
http2_data_read_callback_TrailersAssumed(in) ==
  IF ~in.sd \/ ~in.dconn
    THEN DataReadOut(NGHTTP2_ERR_DEFERRED, {}, in.wtimer, <<>>)
    ELSE IF ~in.downstream
      THEN DataReadOut(NGHTTP2_ERR_DEFERRED, {}, in.wtimer, <<>>)
      ELSE
        LET nread == Min(in.rleft, in.length)
            input_empty == in.rleft = nread
            eof ==
              /\ input_empty
              /\ in.request_state = MSG_COMPLETE
              /\ \/ ~in.upgrade_request
                 \/ /\ in.response_state = HEADER_COMPLETE
                    /\ ~in.upgraded
            submits == eof /\ in.trailers = "kept"
            log == IF submits
                     THEN <<[op |-> "nghttp2_submit_trailer",
                             rv |-> in.submit_trailer_rv]>>
                     ELSE <<>>
            flags ==
              {NGHTTP2_DATA_FLAG_NO_COPY}
                \cup (IF eof THEN {NGHTTP2_DATA_FLAG_EOF} ELSE {})
                \cup (IF submits
                        THEN {NGHTTP2_DATA_FLAG_NO_END_STREAM} ELSE {})
        IN  IF submits /\ in.submit_trailer_rv # 0
                 /\ nghttp2_is_fatal(in.submit_trailer_rv)
              THEN DataReadOut(NGHTTP2_ERR_CALLBACK_FAILURE, flags, in.wtimer, log)
              ELSE IF nread = 0 /\ NGHTTP2_DATA_FLAG_EOF \notin flags
                THEN DataReadOut(NGHTTP2_ERR_DEFERRED, flags, FALSE, log)
                ELSE DataReadOut(nread, flags, in.wtimer, log)

\* http2_data_read_callback
http2_data_read_callback(in) ==
  IF ~in.sd \/ ~in.dconn
    THEN DataReadOut(NGHTTP2_ERR_DEFERRED, {}, in.wtimer, <<>>)
    ELSE IF ~in.downstream
      THEN DataReadOut(NGHTTP2_ERR_DEFERRED, {}, in.wtimer, <<>>)
      ELSE
        LET nread == Min(in.rleft, in.length)
            input_empty == in.rleft = nread
            eof ==
              /\ input_empty
              /\ in.request_state = MSG_COMPLETE
              /\ \/ ~in.upgrade_request
                 \/ /\ in.response_state = HEADER_COMPLETE
                    /\ ~in.upgraded
            submits == eof /\ in.trailers = "kept"
            log == IF submits
                     THEN <<[op |-> "nghttp2_submit_trailer",
                             rv |-> in.submit_trailer_rv]>>
                     ELSE <<>>
            flags ==
              {NGHTTP2_DATA_FLAG_NO_COPY}
                \cup (IF eof THEN {NGHTTP2_DATA_FLAG_EOF} ELSE {})
                \cup (IF submits /\ in.submit_trailer_rv = 0
                        THEN {NGHTTP2_DATA_FLAG_NO_END_STREAM} ELSE {})
        IN  IF submits /\ in.submit_trailer_rv # 0
                 /\ nghttp2_is_fatal(in.submit_trailer_rv)
              THEN DataReadOut(NGHTTP2_ERR_CALLBACK_FAILURE, flags, in.wtimer, log)
              ELSE IF nread = 0 /\ NGHTTP2_DATA_FLAG_EOF \notin flags
                THEN DataReadOut(NGHTTP2_ERR_DEFERRED, flags, FALSE, log)
                ELSE DataReadOut(nread, flags, in.wtimer, log)

DataReadInit ==
  dread = [called |-> FALSE,
           input |-> [sd |-> FALSE, dconn |-> FALSE, downstream |-> FALSE,
                      rleft |-> 0, length |-> 0,
                      request_state |-> HEADER_COMPLETE,
                      upgrade_request |-> FALSE, response_state |-> INITIAL,
                      upgraded |-> FALSE, trailers |-> "none",
                      submit_trailer_rv |-> 0, wtimer |-> FALSE],
           out |-> DataReadOut(0, {}, FALSE, <<>>)]

\* The session asks the data provider of a stream for request body bytes (the
\* call depends on nothing an earlier call left behind, so one call is taken).
DataRead ==
  /\ ~dread.called
  /\ \E in \in DataReadInputs :
       /\ in.dconn => in.sd
       /\ in.downstream => in.dconn
       /\ dread' = [called |-> TRUE, input |-> in,
                    out |-> http2_data_read_callback(in)]
  /\ UNCHANGED <<client, conn, now, h2, push, conn_handler, route, rq, cidgen, closing, hm, certs, dtor, att, wp, tmo, sdb, upl>>

DataReadNext == DataRead

(***************************************************************************)
(* The header block of push_request_headers                                *)
(***************************************************************************)
\* http2::make_field
make_field(name, value) == [name |-> name, value |-> value]

\* Request::regular_connect_method
regular_connect_method(req) ==
  req.method = "CONNECT" /\ req.connect_proto = CONNECT_PROTO_NONE

\* FieldStore::header: the last field of that name (index 0 if there is none)
LastIndex(headers, name) ==
  LET idx == {k \in 1..Len(headers) : headers[k].name = name}
  IN  IF idx = {} THEN 0 ELSE CHOOSE k \in idx : \A j \in idx : j <= k
HasHeader(headers, name) == LastIndex(headers, name) # 0
HeaderValue(headers, name) == headers[LastIndex(headers, name)].value

HDOP_STRIP_FORWARDED == "forwarded"
HDOP_STRIP_X_FORWARDED_FOR == "x-forwarded-for"
HDOP_STRIP_X_FORWARDED_PROTO == "x-forwarded-proto"
HDOP_STRIP_EARLY_DATA == "early-data"
HDOP_STRIP_SEC_WEBSOCKET_KEY == "sec-websocket-key"

\* hop-by-hop and connection-specific fields, never copied
ConnectionSpecific ==
  {"connection", "host", "http2-settings", "keep-alive", "proxy-connection",
   "server", "te", "transfer-encoding", "upgrade"}
\* fields of which the last occurrence is left to the caller to merge
MergedByCaller == {"forwarded", "x-forwarded-for", "x-forwarded-proto", "via"}

\* http2::copy_headers_to_nva_nocopy: copy the request fields except the
\* connection-specific ones, those a flag strips, the cookies (crumbled or copied
\* by the caller) and the last occurrence of each field the caller merges.
RECURSIVE copy_headers_from(_, _, _)
copy_headers_from(headers, flags, k) ==
  IF k > Len(headers)
    THEN <<>>
    ELSE LET name == headers[k].name
             skip == \/ name \in ConnectionSpecific
                     \/ name = "cookie"
                     \/ name \in flags
                     \/ name \in MergedByCaller /\ k = LastIndex(headers, name)
         IN  (IF skip THEN <<>> ELSE <<make_field(name, headers[k].value)>>)
               \o copy_headers_from(headers, flags, k + 1)
copy_headers_to_nva_nocopy(headers, flags) == copy_headers_from(headers, flags, 1)

\* the crumbs of a cookie value
CookieCrumbs(value) ==
  IF value = "a=1; b=2" THEN <<"a=1", "b=2">> ELSE <<value>>
\* Downstream::crumble_request_cookie (crumble = TRUE): one cookie field per
\* crumb; with crumbling disabled the cookie fields are passed on unchanged.
RECURSIVE request_cookie_from(_, _, _)
request_cookie_from(headers, crumble, k) ==
  IF k > Len(headers)
    THEN <<>>
    ELSE (IF headers[k].name # "cookie"
            THEN <<>>
            ELSE IF crumble
              THEN [j \in 1..Len(CookieCrumbs(headers[k].value)) |->
                      make_field("cookie", CookieCrumbs(headers[k].value)[j])]
              ELSE <<make_field("cookie", headers[k].value)>>)
           \o request_cookie_from(headers, crumble, k + 1)

\* http::create_forwarded: the parameters asked for, joined by ";"
create_forwarded(params, forwarded_by, forwarded_for, authority, scheme) ==
  LET by    == IF "by" \in params /\ forwarded_by # ""
                 THEN <<"by=" \o forwarded_by>> ELSE <<>>
      for   == IF "for" \in params /\ forwarded_for # ""
                 THEN <<"for=" \o forwarded_for>> ELSE <<>>
      host  == IF "host" \in params /\ authority # ""
                 THEN <<"host=" \o authority>> ELSE <<>>
      proto == IF "proto" \in params /\ scheme # ""
                 THEN <<"proto=" \o scheme>> ELSE <<>>
      parts == by \o for \o host \o proto
      Join[n \in 0..Len(parts)] ==
        IF n = 0 THEN ""
        ELSE IF n = 1 THEN parts[1]
        ELSE Join[n - 1] \o ";" \o parts[n]
  IN  Join[Len(parts)]

\* http::create_via_header_value
create_via_header_value(http_version) == http_version \o " nghttpx"

request_authority_AlwaysOrigin(req, config, addr) == addr.hostport

\* push_request_headers: the authority sent to the origin
request_authority(req, config, addr) ==
  LET no_host_rewrite ==
        config.no_host_rewrite \/ config.http2_proxy \/ regular_connect_method(req)
  IN  IF no_host_rewrite /\ req.authority # ""
        THEN req.authority
        ELSE addr.hostport

\* push_request_headers: :method, :protocol, :scheme, :path, :authority / host
pseudo_headers(req, addr, authority) ==
  (IF req.connect_proto = CONNECT_PROTO_WEBSOCKET
     THEN <<make_field(":method", "CONNECT"), make_field(":protocol", "websocket")>>
     ELSE <<make_field(":method", req.method)>>)
  \o
  (IF ~regular_connect_method(req)
     THEN << IF addr.tls /\ addr.upgrade_scheme /\ req.scheme = "http"
               THEN make_field(":scheme", "https")
               ELSE make_field(":scheme", req.scheme),
             IF req.method = "OPTIONS" /\ req.path = ""
               THEN make_field(":path", "*")
               ELSE make_field(":path", req.path),
             IF ~req.no_authority \/ req.connect_proto # CONNECT_PROTO_NONE
               THEN make_field(":authority", authority)
               ELSE make_field("host", authority) >>
     ELSE <<make_field(":authority", authority)>>)

\* push_request_headers: the forwarded field
forwarded_header(req, config, handler) ==
  LET has_fwd == ~config.forwarded.strip_incoming
                   /\ HasHeader(req.headers, "forwarded")
      params  == IF config.http2_proxy \/ regular_connect_method(req)
                   THEN config.forwarded.params \ {"proto"}
                   ELSE config.forwarded.params
      value   == create_forwarded(params, handler.forwarded_by,
                                  handler.forwarded_for, req.authority, req.scheme)
  IN  IF config.forwarded.params # {}
        THEN IF has_fwd \/ value # ""
               THEN <<make_field("forwarded",
                        IF has_fwd
                          THEN IF value = ""
                                 THEN HeaderValue(req.headers, "forwarded")
                                 ELSE HeaderValue(req.headers, "forwarded")
                                        \o ", " \o value
                          ELSE value)>>
               ELSE <<>>
        ELSE IF has_fwd
          THEN <<make_field("forwarded", HeaderValue(req.headers, "forwarded"))>>
          ELSE <<>>

x_forwarded_for_header_NoAppend(req, config, handler) ==
  IF config.xff.add
    THEN <<make_field("x-forwarded-for", handler.ipaddr)>>
    ELSE <<>>

\* push_request_headers: the x-forwarded-for field
x_forwarded_for_header(req, config, handler) ==
  LET has_xff == ~config.xff.strip_incoming
                   /\ HasHeader(req.headers, "x-forwarded-for")
  IN  IF config.xff.add
        THEN <<make_field("x-forwarded-for",
                 IF has_xff
                   THEN HeaderValue(req.headers, "x-forwarded-for")
                          \o ", " \o handler.ipaddr
                   ELSE handler.ipaddr)>>
        ELSE IF has_xff
          THEN <<make_field("x-forwarded-for",
                            HeaderValue(req.headers, "x-forwarded-for"))>>
          ELSE <<>>

\* push_request_headers: the x-forwarded-proto field
x_forwarded_proto_header(req, config) ==
  LET has_xfp == ~config.xfp.strip_incoming
                   /\ HasHeader(req.headers, "x-forwarded-proto")
  IN  IF ~config.http2_proxy /\ ~regular_connect_method(req)
        THEN IF config.xfp.add
               THEN <<make_field("x-forwarded-proto",
                        IF has_xfp
                          THEN HeaderValue(req.headers, "x-forwarded-proto")
                                 \o ", " \o req.scheme
                          ELSE req.scheme)>>
               ELSE IF has_xfp
                 THEN <<make_field("x-forwarded-proto",
                                   HeaderValue(req.headers, "x-forwarded-proto"))>>
                 ELSE <<>>
        ELSE <<>>

\* push_request_headers: the via field
via_header(req, config) ==
  LET has_via == HasHeader(req.headers, "via")
  IN  IF config.no_via
        THEN IF has_via
               THEN <<make_field("via", HeaderValue(req.headers, "via"))>>
               ELSE <<>>
        ELSE <<make_field("via",
                 (IF has_via THEN HeaderValue(req.headers, "via") \o ", " ELSE "")
                   \o create_via_header_value(req.http_version))>>

\* http2::contains_trailers
contains_trailers(value) == value \in {"trailers", "gzip, trailers"}

\* push_request_headers from the configuration lookup to the finished header
\* block: the host recorded with set_request_downstream_host and nva
request_header_block(req, config, addr, handler) ==
  LET authority == request_authority(req, config, addr)
      build_flags ==
        (IF config.forwarded.strip_incoming THEN {HDOP_STRIP_FORWARDED} ELSE {})
          \cup (IF config.xff.strip_incoming
                  THEN {HDOP_STRIP_X_FORWARDED_FOR} ELSE {})
          \cup (IF config.xfp.strip_incoming
                  THEN {HDOP_STRIP_X_FORWARDED_PROTO} ELSE {})
          \cup (IF config.early_data.strip_incoming
                  THEN {HDOP_STRIP_EARLY_DATA} ELSE {})
          \cup {HDOP_STRIP_SEC_WEBSOCKET_KEY}
  IN  [request_downstream_host |-> authority,
       nva |->
         pseudo_headers(req, addr, authority)
           \o copy_headers_to_nva_nocopy(req.headers, build_flags)
           \o request_cookie_from(req.headers, ~config.no_cookie_crumbling, 1)
           \o (IF handler.tls_early
                 THEN <<make_field("early-data", "1")>> ELSE <<>>)
           \o forwarded_header(req, config, handler)
           \o x_forwarded_for_header(req, config, handler)
           \o x_forwarded_proto_header(req, config)
           \o via_header(req, config)
           \o (IF HasHeader(req.headers, "te")
                    /\ contains_trailers(HeaderValue(req.headers, "te"))
                 THEN <<make_field("te", "trailers")>> ELSE <<>>)
           \o config.add_request_headers]

\* A request as the upstream hands it over
MkReq(method, connect_proto, authority, no_authority, scheme, path, headers, content_length, http2_expect_body) ==
  [method |-> method, connect_proto |-> connect_proto,
   upgrade_request |-> FALSE,
   transfer_encoding |-> HasHeader(headers, "transfer-encoding"),
   content_length |-> content_length, http2_expect_body |-> http2_expect_body,
   authority |-> authority, no_authority |-> no_authority, scheme |-> scheme,
   path |-> path, http_version |-> "1.1", headers |-> headers]

\* The configuration (config->http, config->http2, config->http2_proxy)
MkConfig(no_host_rewrite, http2_proxy, xff_strip, xff_add, xfp_strip, xfp_add, misc) ==
  [no_host_rewrite |-> no_host_rewrite, http2_proxy |-> http2_proxy,
   xff |-> [strip_incoming |-> xff_strip, add |-> xff_add],
   xfp |-> [strip_incoming |-> xfp_strip, add |-> xfp_add],
   forwarded |-> misc.forwarded, early_data |-> misc.early_data,
   no_via |-> misc.no_via, no_cookie_crumbling |-> misc.no_cookie_crumbling,
   add_request_headers |-> misc.add_request_headers]

MiscDefault ==
  [forwarded |-> [strip_incoming |-> FALSE, params |-> {}],
   early_data |-> [strip_incoming |-> FALSE],
   no_via |-> FALSE, no_cookie_crumbling |-> FALSE,
   add_request_headers |-> <<>>]
MiscStrip ==
  [forwarded |-> [strip_incoming |-> TRUE, params |-> {}],
   early_data |-> [strip_incoming |-> TRUE],
   no_via |-> TRUE, no_cookie_crumbling |-> TRUE,
   add_request_headers |-> <<make_field("x-extra", "1")>>]
MiscForwarded ==
  [MiscDefault EXCEPT !.forwarded.params = {"for", "proto"}]
MiscConfigs == {MiscDefault, MiscStrip, MiscForwarded}

ConfigDefault == MkConfig(FALSE, FALSE, FALSE, FALSE, FALSE, FALSE, MiscDefault)

\* Request header lists
NoHeaders == <<>>
XffHeaders == <<make_field("x-forwarded-for", "X")>>
ProxyHeaders ==
  <<make_field("x-forwarded-for", "X"), make_field("x-forwarded-proto", "http"),
    make_field("forwarded", "for=old"), make_field("via", "1.0 old"),
    make_field("accept", "*/*")>>
TwoXffHeaders ==
  <<make_field("x-forwarded-for", "X1"), make_field("x-forwarded-for", "X")>>
HopHeaders ==
  <<make_field("connection", "te"), make_field("te", "trailers"),
    make_field("cookie", "a=1; b=2"), make_field("sec-websocket-key", "k"),
    make_field("early-data", "1"), make_field("host", "A"),
    make_field("transfer-encoding", "chunked")>>
ChunkedHeaders == <<make_field("transfer-encoding", "chunked")>>

Methods == {"GET", "CONNECT", "OPTIONS"}
ConnectProtos == {CONNECT_PROTO_NONE, CONNECT_PROTO_WEBSOCKET}

\* The origin address of the session (http2session_->get_addr())
Addrs == [hostport : {"origin:443"}, tls : BOOLEAN, upgrade_scheme : BOOLEAN]
AddrDefault == [hostport |-> "origin:443", tls |-> FALSE, upgrade_scheme |-> FALSE]
\* The client handler of the upstream
HandlerDefault ==
  [ipaddr |-> "192.0.2.1", forwarded_by |-> "_by", forwarded_for |-> "192.0.2.1",
   tls_early |-> FALSE]
Handlers == {HandlerDefault, [HandlerDefault EXCEPT !.tls_early = TRUE]}

PushInput(req, config, addr, handler, allow_connect_proto, submit_rv) ==
  [req |-> req, config |-> config, addr |-> addr, handler |-> handler,
   allow_connect_proto |-> allow_connect_proto, submit_rv |-> submit_rv]

\* Inputs that vary what decides the data provider and the submission
PushInputsBody ==
  {PushInput(MkReq(m, cp, "A", FALSE, "http", "/p", hs, cl, eb),
             ConfigDefault, AddrDefault, HandlerDefault, allow, rv) :
     m \in Methods, cp \in ConnectProtos, hs \in {NoHeaders, ChunkedHeaders},
     cl \in {0, 1}, eb \in BOOLEAN, allow \in BOOLEAN, rv \in {0, -1}}
\* Inputs that vary what decides the authority, the scheme and the x-forwarded-*
\* fields
PushInputsForwarding ==
  {PushInput(MkReq(m, cp, a, na, sc, "/p", hs, 0, FALSE),
             MkConfig(nhr, px, c[1], c[2], c[3], c[4], MiscDefault),
             addr, HandlerDefault, TRUE, 0) :
     m \in Methods, cp \in ConnectProtos, a \in {"", "A"}, na \in BOOLEAN,
     sc \in {"http", "https"},
     hs \in {NoHeaders, XffHeaders, ProxyHeaders, TwoXffHeaders},
     nhr \in BOOLEAN, px \in BOOLEAN,
     c \in BOOLEAN \X BOOLEAN \X BOOLEAN \X BOOLEAN, addr \in Addrs}
\* Inputs that vary the remaining fields of the header block
PushInputsMisc ==
  {PushInput(MkReq(m, CONNECT_PROTO_NONE, "A", FALSE, "http", path, hs, 0, FALSE),
             MkConfig(FALSE, px, FALSE, FALSE, FALSE, FALSE, misc),
             AddrDefault, handler, TRUE, 0) :
     m \in Methods, path \in {"", "/p"}, hs \in {ProxyHeaders, HopHeaders},
     px \in BOOLEAN, misc \in MiscConfigs, handler \in Handlers}
PushInputs == PushInputsBody \cup PushInputsForwarding \cup PushInputsMisc

\* A CONNECTED session with connection 1 freshly attached to a Downstream
\* carrying req
EstablishedSession(req, allow_connect_proto) ==
  [attach_downstream(
     [Http2Init EXCEPT !.session.state = CONNECTED,
                       !.session.allow_connect_proto = allow_connect_proto,
                       !.dconns[1].life = "new",
                       !.downstreams[1] = NewDownstream(req)],
     1, 1)
     EXCEPT !.log = <<>>]

NoBlock == [built |-> FALSE, request_downstream_host |-> "", nva |-> <<>>]

PushInit ==
  push = [called |-> FALSE,
          input |-> PushInput(MkReq("GET", CONNECT_PROTO_NONE, "A", FALSE, "http",
                                    "/p", NoHeaders, 0, FALSE),
                              ConfigDefault, AddrDefault, HandlerDefault, TRUE, 0),
          block |-> NoBlock,
          h |-> Http2Init]

\* push_request_headers is called for a Downstream on an established session
\* (the call depends on nothing an earlier call left behind, so one call is
\* taken).
PushOnEstablished ==
  /\ ~push.called
  /\ \E in \in PushInputs :
       LET base == EstablishedSession(in.req, in.allow_connect_proto)
           req  == base.downstreams[1].req
           builds == can_push_request(base, 1)
                       /\ ~(req.connect_proto # CONNECT_PROTO_NONE
                              /\ ~base.session.allow_connect_proto)
           blk  == request_header_block(req, in.config, in.addr, in.handler)
       IN  push' = [called |-> TRUE,
                    input |-> in,
                    block |-> IF builds
                                THEN [built |-> TRUE,
                                      request_downstream_host |->
                                        blk.request_downstream_host,
                                      nva |-> blk.nva]
                                ELSE NoBlock,
                    h |-> push_request_headers(base, 1, in.submit_rv)]
  /\ UNCHANGED <<client, conn, now, h2, dread, conn_handler, route, rq, cidgen, closing, hm, certs, dtor, att, wp, tmo, sdb, upl>>

PushNext == PushOnEstablished

\* ---------------------------------------------------------------------
\* ConnectionHandler: the serial-event channel and the replacement of the
\* downstream configuration (shrpx_connection_handler.h).  The header
\* declares the operations; their behaviour follows the specification of
\* the channel: a mutex-guarded receive buffer, an async wakeup of the
\* loop thread, and one WorkerEvent per worker for every applied
\* REPLACE_DOWNSTREAM.
\* ---------------------------------------------------------------------

\* Total number of DownstreamConfig generations that are ever posted.
MaxGen == 3
\* In-flight Downstream objects per worker.
MaxInflight == 1

Threads == {"A", "B"}
Workers == {"w1", "w2"}
NoOwner == "none"
Generations == 0..MaxGen

SerialEvent(type, downstreamconf, by) ==
  [type |-> type, downstreamconf |-> downstreamconf, by |-> by]

\* std::shared_ptr<DownstreamConfig>: a copy adds a reference, a
\* destroyed copy drops one, and the snapshot is released with the last.
shared_ptr_copy(ch, g) ==
  [ch EXCEPT !.use_count[g] = @ + 1]

shared_ptr_drop(ch, g) ==
  [ch EXCEPT !.use_count[g] = @ - 1,
             !.released = IF ch.use_count[g] = 1 THEN @ \cup {g} ELSE @]

\* The critical section of handle_serial_event that keeps the receive
\* buffer: the events it has taken are taken again by the next drain.
swap_serial_events_KeepBuffer(ch) ==
  [ch EXCEPT !.q = ch.serial_events_]

\* The critical section of handle_serial_event: q.swap(serial_events_).
swap_serial_events(ch) ==
  [ch EXCEPT !.q = ch.serial_events_, !.serial_events_ = << >>]

\* send_serial_event, under serial_event_mu_: serial_events_.push_back(ev).
push_serial_event(ch, ev) ==
  LET c1 == shared_ptr_copy(ch, ev.downstreamconf)
  IN  [c1 EXCEPT !.serial_events_ = Append(@, ev),
                 !.posted[ev.by] = Append(@, ev.downstreamconf)]

RECURSIVE worker_send_all(_, _, _)
worker_send_all(ch, ws, g) ==
  IF ws = {} THEN ch
  ELSE LET w == CHOOSE x \in ws : TRUE
           c1 == shared_ptr_copy(ch, g)
       IN  worker_send_all([c1 EXCEPT !.workers[w].q_ = Append(@, g)],
                           ws \ {w}, g)

\* worker_replace_downstream: one WorkerEvent REPLACE_DOWNSTREAM carrying
\* the snapshot is sent to every worker.
worker_replace_downstream(ch, g) == worker_send_all(ch, Workers, g)

\* One iteration of the loop of handle_serial_event over the events it
\* has taken: the configuration is replaced and the workers are told.
apply_serial_event(ch, ev) ==
  LET c1 == shared_ptr_copy(ch, ev.downstreamconf)
      c2 == shared_ptr_drop([c1 EXCEPT !.downstream = ev.downstreamconf],
                            ch.downstream)
      c3 == IF ev.type = "REPLACE_DOWNSTREAM"
              THEN worker_replace_downstream(c2, ev.downstreamconf)
              ELSE c2
      c4 == shared_ptr_drop(c3, ev.downstreamconf)
  IN  [c4 EXCEPT !.applied = Append(@, ev), !.q = Tail(ch.q),
                 !.loop_pc = IF Len(ch.q) = 1 THEN "idle" ELSE "apply"]

\* Worker::process_events that discards the event it has taken.
replace_downstream_config_Ignored(ch, w) ==
  shared_ptr_drop([ch EXCEPT !.workers[w].q_ = Tail(@)],
                  Head(ch.workers[w].q_))

\* Worker::process_events for REPLACE_DOWNSTREAM: the worker's snapshot
\* is replaced by the one the event carries.
replace_downstream_config(ch, w) ==
  LET g == Head(ch.workers[w].q_)
      c1 == [ch EXCEPT !.workers[w].q_ = Tail(@),
                       !.workers[w].downstreamconf_ = g,
                       !.workers[w].seen = @ \cup {g}]
  IN  shared_ptr_drop(c1, ch.workers[w].downstreamconf_)

RemoveAt(s, i) == [j \in 1..(Len(s) - 1) |-> IF j < i THEN s[j] ELSE s[j + 1]]

HandlerInit ==
  conn_handler =
    [serial_event_mu_ |-> NoOwner,
     serial_events_ |-> << >>,
     serial_event_asyncev_ |-> FALSE,
     pc |-> [t \in Threads |-> "idle"],
     pending |-> [t \in Threads |-> 0],
     posted |-> [t \in Threads |-> << >>],
     next_gen |-> 1,
     loop_pc |-> "idle",
     q |-> << >>,
     applied |-> << >>,
     downstream |-> 0,
     workers |-> [w \in Workers |->
                   [q_ |-> << >>, downstreamconf_ |-> 0, seen |-> {0},
                    inflight |-> << >>]],
     use_count |-> [g \in Generations |->
                     IF g = 0 THEN 1 + Cardinality(Workers) ELSE 0],
     released |-> {}]

\* send_replace_downstream(downstreamconf): the caller has built a new
\* snapshot and enters send_serial_event, taking serial_event_mu_.
SendLock(t) ==
  /\ conn_handler.pc[t] = "idle"
  /\ conn_handler.next_gen <= MaxGen
  /\ conn_handler.serial_event_mu_ = NoOwner
  /\ conn_handler' = [shared_ptr_copy(conn_handler, conn_handler.next_gen) EXCEPT
                   !.serial_event_mu_ = t,
                   !.pc[t] = "locked",
                   !.pending[t] = conn_handler.next_gen,
                   !.next_gen = @ + 1]
  /\ UNCHANGED <<client, conn, now, h2, dread, push, route, rq, cidgen, closing, hm, certs, dtor, att, wp, tmo, sdb, upl>>

\* send_serial_event: push_back under the mutex, then the lock_guard ends.
SendPush(t) ==
  /\ conn_handler.pc[t] = "locked"
  /\ conn_handler' =
       [push_serial_event(conn_handler,
          SerialEvent("REPLACE_DOWNSTREAM", conn_handler.pending[t], t)) EXCEPT
            !.serial_event_mu_ = NoOwner,
            !.pc[t] = "pushed"]
  /\ UNCHANGED <<client, conn, now, h2, dread, push, route, rq, cidgen, closing, hm, certs, dtor, att, wp, tmo, sdb, upl>>

\* send_serial_event: ev_async_send, and the caller's reference ends.
SendAsync(t) ==
  /\ conn_handler.pc[t] = "pushed"
  /\ conn_handler' = [shared_ptr_drop(conn_handler, conn_handler.pending[t]) EXCEPT
                   !.serial_event_asyncev_ = TRUE,
                   !.pc[t] = "idle",
                   !.pending[t] = 0]
  /\ UNCHANGED <<client, conn, now, h2, dread, push, route, rq, cidgen, closing, hm, certs, dtor, att, wp, tmo, sdb, upl>>

\* The loop thread runs the callback of serial_event_asyncev_.
LoopWake ==
  /\ conn_handler.loop_pc = "idle"
  /\ conn_handler.serial_event_asyncev_
  /\ conn_handler' = [conn_handler EXCEPT !.serial_event_asyncev_ = FALSE,
                                !.loop_pc = "drain"]
  /\ UNCHANGED <<client, conn, now, h2, dread, push, route, rq, cidgen, closing, hm, certs, dtor, att, wp, tmo, sdb, upl>>

\* handle_serial_event: the receive buffer is taken under the mutex.
LoopSwap ==
  /\ conn_handler.loop_pc = "drain"
  /\ conn_handler.serial_event_mu_ = NoOwner
  /\ conn_handler' = [swap_serial_events(conn_handler) EXCEPT
                   !.loop_pc = IF conn_handler.serial_events_ = << >>
                                 THEN "idle" ELSE "apply"]
  /\ UNCHANGED <<client, conn, now, h2, dread, push, route, rq, cidgen, closing, hm, certs, dtor, att, wp, tmo, sdb, upl>>

\* handle_serial_event: the next taken event is applied.
LoopApply ==
  /\ conn_handler.loop_pc = "apply"
  /\ conn_handler' = apply_serial_event(conn_handler, Head(conn_handler.q))
  /\ UNCHANGED <<client, conn, now, h2, dread, push, route, rq, cidgen, closing, hm, certs, dtor, att, wp, tmo, sdb, upl>>

\* A worker handles the next WorkerEvent of its queue.
WorkerProcess(w) ==
  /\ conn_handler.workers[w].q_ # << >>
  /\ conn_handler' = replace_downstream_config(conn_handler, w)
  /\ UNCHANGED <<client, conn, now, h2, dread, push, route, rq, cidgen, closing, hm, certs, dtor, att, wp, tmo, sdb, upl>>

\* A worker starts a Downstream, which refers to the worker's snapshot.
DownstreamStart(w) ==
  /\ Len(conn_handler.workers[w].inflight) < MaxInflight
  /\ conn_handler' =
       [shared_ptr_copy(conn_handler, conn_handler.workers[w].downstreamconf_) EXCEPT
          !.workers[w].inflight = Append(@, conn_handler.workers[w].downstreamconf_)]
  /\ UNCHANGED <<client, conn, now, h2, dread, push, route, rq, cidgen, closing, hm, certs, dtor, att, wp, tmo, sdb, upl>>

\* An in-flight Downstream completes and drops its reference.
DownstreamComplete(w) ==
  /\ \E i \in 1..Len(conn_handler.workers[w].inflight) :
       conn_handler' =
         [shared_ptr_drop(conn_handler, conn_handler.workers[w].inflight[i]) EXCEPT
            !.workers[w].inflight = RemoveAt(@, i)]
  /\ UNCHANGED <<client, conn, now, h2, dread, push, route, rq, cidgen, closing, hm, certs, dtor, att, wp, tmo, sdb, upl>>

HandlerNext ==
  \/ \E t \in Threads : SendLock(t)
  \/ \E t \in Threads : SendPush(t)
  \/ \E t \in Threads : SendAsync(t)
  \/ LoopWake
  \/ LoopSwap
  \/ LoopApply
  \/ \E w \in Workers : WorkerProcess(w)
  \/ \E w \in Workers : DownstreamStart(w)
  \/ \E w \in Workers : DownstreamComplete(w)

\* ---------------------------------------------------------------------
\* ConnectionHandler: routing of a received QUIC datagram by the Worker
\* ID carried in the leading bytes of its destination Connection ID
\* (shrpx_connection_handler.h).  The header declares the operations;
\* their behaviour follows the specification of the dispatch.
\* ---------------------------------------------------------------------

WorkerIDs == {"wa", "wb", "wc", "wd", "we"}
NoWorker == "null"
NoProcess == 0

\* The Worker ID is the prefix of the destination Connection ID.
DcidWorkerID(dcid) == dcid[1]

QUICLingeringWorkerProcess(worker_ids, quic_ipc_fd) ==
  [worker_ids |-> worker_ids, quic_ipc_fd |-> quic_ipc_fd]

\* find_worker: the Worker registered under |wid| in worker_ids_, which
\* is index-aligned with workers_; NoWorker if there is none.
find_worker(cfg, wid) ==
  IF \E i \in 1..Len(cfg.worker_ids_) : cfg.worker_ids_[i] = wid
    THEN cfg.workers_[CHOOSE i \in 1..Len(cfg.worker_ids_) :
                        /\ cfg.worker_ids_[i] = wid
                        /\ \A j \in 1..(i - 1) : cfg.worker_ids_[j] # wid]
    ELSE NoWorker

\* match_quic_lingering_worker_process_worker_id: the index of the first
\* lingering worker process that lists |wid|; NoProcess if there is none.
match_quic_lingering_worker_process_worker_id(cfg, wid) ==
  LET lwps == cfg.quic_lingering_worker_processes_
      Lists(i) == \E k \in 1..Len(lwps[i].worker_ids) :
                    lwps[i].worker_ids[k] = wid
  IN  IF \E i \in 1..Len(lwps) : Lists(i)
        THEN CHOOSE i \in 1..Len(lwps) :
               Lists(i) /\ \A j \in 1..(i - 1) : ~Lists(j)
        ELSE NoProcess

\* forward_quic_packet: the datagram is handed to the local Worker of
\* |wid| as a worker event; -1 if no local Worker has that Worker ID.
forward_quic_packet(out, cfg, faddr, remote_addr, local_addr, pi, wid, data) ==
  LET worker == find_worker(cfg, wid)
  IN  IF worker = NoWorker
        THEN [out EXCEPT !.rv = -1]
        ELSE [out EXCEPT
                !.rv = 0,
                !.worker_events = Append(@,
                  [worker |-> worker, faddr |-> faddr,
                   remote_addr |-> remote_addr, local_addr |-> local_addr,
                   pi |-> pi, data |-> data])]

\* forward_quic_packet_to_lingering_worker_process: one DGRAM_FORWARD
\* message with the datagram and its metadata on the process's socket.
forward_quic_packet_to_lingering_worker_process(out, quic_lwp, remote_addr, local_addr, pi, data) ==
  [out EXCEPT
     !.rv = 0,
     !.ipc = Append(@,
       [fd |-> quic_lwp.quic_ipc_fd, type |-> "DGRAM_FORWARD",
        remote_addr |-> remote_addr, local_addr |-> local_addr,
        pi |-> pi, data |-> data])]

NoRoute == [rv |-> 0, worker_events |-> << >>, ipc |-> << >>]

\* The dispatch that also tries the lingering worker processes when a
\* local Worker has taken the datagram.
route_quic_datagram_TryBoth(cfg, dgram) ==
  LET wid == DcidWorkerID(dgram.dcid)
      o1 == forward_quic_packet(NoRoute, cfg, dgram.faddr, dgram.remote_addr,
                                dgram.local_addr, dgram.pi, wid, dgram.data)
      p == match_quic_lingering_worker_process_worker_id(cfg, wid)
  IN  IF p = NoProcess THEN o1
      ELSE forward_quic_packet_to_lingering_worker_process(
             o1, cfg.quic_lingering_worker_processes_[p],
             dgram.remote_addr, dgram.local_addr, dgram.pi, dgram.data)

\* The dispatch of a datagram that is not for the receiving Worker: the
\* local Worker of its Worker ID first, a lingering worker process next.
route_quic_datagram(cfg, dgram) ==
  LET wid == DcidWorkerID(dgram.dcid)
      o1 == forward_quic_packet(NoRoute, cfg, dgram.faddr, dgram.remote_addr,
                                dgram.local_addr, dgram.pi, wid, dgram.data)
      p == match_quic_lingering_worker_process_worker_id(cfg, wid)
  IN  IF o1.rv = 0 THEN o1
      ELSE IF p = NoProcess THEN o1
      ELSE forward_quic_packet_to_lingering_worker_process(
             o1, cfg.quic_lingering_worker_processes_[p],
             dgram.remote_addr, dgram.local_addr, dgram.pi, dgram.data)

RouteConfigs ==
  { [worker_ids_ |-> wids, workers_ |-> ws,
     quic_lingering_worker_processes_ |-> lwps] :
      wids \in {<<"wa", "wb">>}, ws \in {<<"w1", "w2">>},
      lwps \in { << >>,
                 <<QUICLingeringWorkerProcess(<<"wc">>, 7)>>,
                 <<QUICLingeringWorkerProcess(<<"wc", "wd">>, 7),
                   QUICLingeringWorkerProcess(<<"wd", "we">>, 8)>>,
                 <<QUICLingeringWorkerProcess(<<"wb", "wc">>, 7)>> } }

Datagrams ==
  [dcid : {<<wid, 1>> : wid \in WorkerIDs},
   faddr : {"udp0"},
   remote_addr : {"peer1", "peer2"},
   local_addr : {"local1", "local2"},
   pi : {[ecn |-> 0], [ecn |-> 1]},
   data : {<<1>>, <<1, 2>>}]

RouteInit ==
  route = [called |-> FALSE, cfg |-> CHOOSE c \in RouteConfigs : TRUE,
           dgram |-> CHOOSE d \in Datagrams : TRUE, out |-> NoRoute]

\* A datagram arrives at a Worker that does not own its Worker ID.
RouteDatagram ==
  /\ ~route.called
  /\ \E cfg \in RouteConfigs, dgram \in Datagrams :
       route' = [called |-> TRUE, cfg |-> cfg, dgram |-> dgram,
                 out |-> route_quic_datagram(cfg, dgram)]
  /\ UNCHANGED <<client, conn, now, h2, dread, push, conn_handler, rq, cidgen, closing, hm, certs, dtor, att, wp, tmo, sdb, upl>>

RouteNext == RouteDatagram


\* ---------------------------------------------------------------------
\* h2load QUIC client engine: Client::read_quic.  A call is followed through
\* its loops: rq.pc says whether it is about to call recvmsg or
\* ngtcp2_conn_read_pkt, or has returned.
\* ---------------------------------------------------------------------

\* Bytes one recvmsg returns at most, and the largest UDP_GRO segment size.
MaxNread == 3
MaxGro == 2

\* if (pktcnt >= 100)
READ_QUIC_PKT_LIMIT == 100

NGTCP2_ERR_CRYPTO == -215
NGTCP2_ERR_PROTO == -205

\* ngtcp2_ccerr: error_code is 0 until an error is set.
NoCcerr == [type |-> "none", error_code |-> 0, liberr |-> 0]
ccerr_set_tls_alert(alert) ==
  [type |-> "tls_alert", error_code |-> 256 + alert, liberr |-> 0]
ccerr_set_liberr(rv) ==
  [type |-> "liberr", error_code |-> 1, liberr |-> rv]
ccerr_application_error ==
  [type |-> "application", error_code |-> 257, liberr |-> 0]

TlsAlerts == {40, 80}
ReadPktResults ==
  {0, NGTCP2_ERR_CRYPTO, NGTCP2_ERR_PROTO, NGTCP2_ERR_CALLBACK_FAILURE}

\* The end of the outer loop body without the test of pktcnt.
read_quic_after_blob_NoLimit(r) == [r EXCEPT !.pc = "recvmsg"]

\* The end of the outer loop body: if (pktcnt >= 100) break; return 0.
read_quic_after_blob(r) ==
  IF r.pktcnt >= READ_QUIC_PKT_LIMIT
    THEN [r EXCEPT !.rv = 0, !.pc = "returned"]
    ELSE [r EXCEPT !.pc = "recvmsg"]

\* read_quic from recvmsg to the inner loop: -1 ends the call with 0;
\* else gso_size is the UDP_GRO segment size, or nread without it, and the
\* datagram count of the blob is added to the statistics.
read_quic_recvmsg(r, nread, gro) ==
  IF nread = -1
    THEN [r EXCEPT !.rv = 0, !.pc = "returned", !.recv_rv = -1]
    ELSE LET gso_size == IF gro = 0 THEN nread ELSE gro
         IN  [r EXCEPT
                !.recv_rv = nread,
                !.nread = nread,
                !.gso_size = gso_size,
                !.off = 0,
                !.blob_start = r.pktcnt,
                !.udp_dgram_recv =
                   IF gso_size # 0
                     THEN @ + ((nread + gso_size - 1) \div gso_size)
                     ELSE @ + 1,
                !.pc = "read_pkt"]

\* The error branch of read_quic that sets quic.last_error although an
\* error code is already recorded.
read_quic_set_last_error_Overwrite(r, rv, alert) ==
  [r EXCEPT !.last_error = IF rv = NGTCP2_ERR_CRYPTO
                             THEN ccerr_set_tls_alert(alert)
                             ELSE ccerr_set_liberr(rv)]

\* The error branch of read_quic: quic.last_error is set only if it holds
\* no error code yet; the TLS alert for NGTCP2_ERR_CRYPTO, else the library
\* error.
read_quic_set_last_error(r, rv, alert) ==
  IF r.last_error.error_code # 0
    THEN r
    ELSE [r EXCEPT !.last_error = IF rv = NGTCP2_ERR_CRYPTO
                                    THEN ccerr_set_tls_alert(alert)
                                    ELSE ccerr_set_liberr(rv)]

\* One pass of the inner loop of read_quic: the next datalen bytes of the
\* blob are fed to ngtcp2_conn_read_pkt.  rv: its result; alert: the TLS
\* alert of the connection; cb_error: a callback run by the state machine
\* recorded an application error in quic.last_error before it failed.
read_quic_read_pkt(r, rv, alert, cb_error) ==
  LET datalen == Min(r.nread, r.gso_size)
      r1 == [r EXCEPT !.pktcnt = @ + 1,
                      !.pkt_rv = rv,
                      !.tls_alert = alert,
                      !.cb_error = cb_error,
                      !.last_error = IF cb_error
                                       THEN ccerr_application_error ELSE @]
  IN  IF rv # 0
        THEN [read_quic_set_last_error(r1, rv, alert) EXCEPT
                !.rv = -1, !.pc = "returned"]
        ELSE LET r2 == [r1 EXCEPT !.nread = @ - datalen]
             IN  IF r2.nread = 0
                   THEN read_quic_after_blob(r2)
                   ELSE [r2 EXCEPT !.off = @ + datalen]

ReadQuicInit ==
  rq = [pc |-> "idle", ts |-> 0, pktcnt |-> 0, nread |-> 0, gso_size |-> 0,
        off |-> 0, blob_start |-> 0, udp_dgram_recv |-> 0,
        recv_rv |-> 0, pkt_rv |-> 0, tls_alert |-> 0, cb_error |-> FALSE,
        rv |-> 0, last_error |-> NoCcerr]

\* The read handler runs: pktcnt = 0 and the timestamp is sampled once.
ReadQuicEnter ==
  /\ rq.pc = "idle"
  /\ rq' = [rq EXCEPT !.pc = "recvmsg", !.ts = now]
  /\ UNCHANGED <<client, conn, now, h2, dread, push, conn_handler, route, cidgen, closing, hm, certs, dtor, att, wp, tmo, sdb, upl>>

\* recvmsg returns -1, or a blob of nread bytes with or without UDP_GRO.
ReadQuicRecvmsg ==
  /\ rq.pc = "recvmsg"
  /\ \E nread \in -1..MaxNread, gro \in 0..MaxGro :
       /\ (nread <= 0) => (gro = 0)
       /\ rq' = read_quic_recvmsg(rq, nread, gro)
  /\ UNCHANGED <<client, conn, now, h2, dread, push, conn_handler, route, cidgen, closing, hm, certs, dtor, att, wp, tmo, sdb, upl>>

\* ngtcp2_conn_read_pkt is given the next datagram of the blob.
ReadQuicReadPkt ==
  /\ rq.pc = "read_pkt"
  /\ \E rv \in ReadPktResults :
       \E alert \in (IF rv = NGTCP2_ERR_CRYPTO THEN TlsAlerts ELSE {0}),
          cb_error \in (IF rv = NGTCP2_ERR_CALLBACK_FAILURE
                          THEN BOOLEAN ELSE {FALSE}) :
         rq' = read_quic_read_pkt(rq, rv, alert, cb_error)
  /\ UNCHANGED <<client, conn, now, h2, dread, push, conn_handler, route, cidgen, closing, hm, certs, dtor, att, wp, tmo, sdb, upl>>

ReadNext ==
  \/ ReadQuicEnter
  \/ ReadQuicRecvmsg
  \/ ReadQuicReadPkt

\* ---------------------------------------------------------------------
\* h2load QUIC client engine: Connection IDs (generate_cid,
\* get_new_connection_id).  A buffer filled by RAND_bytes is described by
\* the number of random bytes written to it.
\* ---------------------------------------------------------------------

\* Connection IDs the state machine asks for after init.
MaxNewCids == 4

\* dest.datalen = 8
GENERATE_CID_LEN == 8
NGTCP2_STATELESS_RESET_TOKENLEN == 16
\* The longest Connection ID the state machine may request.
MaxCidLen == 20

\* The lengths the state machine may request.
CidLens == {1, GENERATE_CID_LEN, MaxCidLen}

\* RAND_bytes returns 1 on success.
RandResults == {1, 0}

NoCid == [datalen |-> 0, nrand |-> 0]

\* generate_cid: datalen = 8, then 8 random bytes; -1 if RAND_bytes fails.
generate_cid(rand) ==
  IF rand # 1
    THEN [rv |-> -1, cid |-> [datalen |-> GENERATE_CID_LEN, nrand |-> 0]]
    ELSE [rv |-> 0, cid |-> [datalen |-> GENERATE_CID_LEN,
                             nrand |-> GENERATE_CID_LEN]]

\* get_new_connection_id that does not look at the result of the second
\* RAND_bytes.
get_new_connection_id_TokenUnchecked(cidlen, rand1, rand2) ==
  IF rand1 # 1
    THEN [rv |-> NGTCP2_ERR_CALLBACK_FAILURE, cid |-> NoCid, token |-> 0]
    ELSE [rv |-> 0, cid |-> [datalen |-> cidlen, nrand |-> cidlen],
          token |-> IF rand2 = 1 THEN NGTCP2_STATELESS_RESET_TOKENLEN ELSE 0]

\* get_new_connection_id: cidlen random bytes and datalen = cidlen, then a
\* random token of NGTCP2_STATELESS_RESET_TOKENLEN bytes; a failing
\* RAND_bytes gives NGTCP2_ERR_CALLBACK_FAILURE.
get_new_connection_id(cidlen, rand1, rand2) ==
  IF rand1 # 1
    THEN [rv |-> NGTCP2_ERR_CALLBACK_FAILURE, cid |-> NoCid, token |-> 0]
    ELSE IF rand2 # 1
      THEN [rv |-> NGTCP2_ERR_CALLBACK_FAILURE,
            cid |-> [datalen |-> cidlen, nrand |-> cidlen], token |-> 0]
      ELSE [rv |-> 0, cid |-> [datalen |-> cidlen, nrand |-> cidlen],
            token |-> NGTCP2_STATELESS_RESET_TOKENLEN]

\* quic_init, the part that makes the source and destination CIDs.
quic_init_cids(g, rand1, rand2) ==
  LET s == generate_cid(rand1)
      d == generate_cid(rand2)
  IN  IF s.rv # 0
        THEN [g EXCEPT !.pc = "failed", !.rv = -1]
        ELSE IF d.rv # 0
          THEN [g EXCEPT !.pc = "failed", !.rv = -1, !.scid = s.cid]
          ELSE [g EXCEPT !.pc = "ready", !.rv = 0, !.scid = s.cid,
                         !.dcid = d.cid]

\* The state machine takes the Connection ID a successful callback made, and
\* gives up the connection when the callback fails.
conn_new_connection_id(g, cidlen, out) ==
  IF out.rv # 0
    THEN [g EXCEPT !.pc = "failed", !.rv = out.rv, !.requested = cidlen]
    ELSE [g EXCEPT !.rv = 0, !.requested = cidlen,
                   !.cids = Append(@, [cid |-> out.cid, token |-> out.token,
                                       requested |-> cidlen])]

CidInit ==
  cidgen = [pc |-> "start", rv |-> 0, scid |-> NoCid, dcid |-> NoCid,
            requested |-> 0, cids |-> << >>]

\* Client::quic_init makes the two Connection IDs of the connection.
QuicInitCids ==
  /\ cidgen.pc = "start"
  /\ \E rand1 \in RandResults, rand2 \in RandResults :
       cidgen' = quic_init_cids(cidgen, rand1, rand2)
  /\ UNCHANGED <<client, conn, now, h2, dread, push, conn_handler, route, rq, closing, hm, certs, dtor, att, wp, tmo, sdb, upl>>

\* The state machine asks for a new Connection ID of cidlen bytes.
NewConnectionId ==
  /\ cidgen.pc = "ready"
  /\ Len(cidgen.cids) < MaxNewCids
  /\ \E cidlen \in CidLens, rand1 \in RandResults, rand2 \in RandResults :
       cidgen' = conn_new_connection_id(cidgen, cidlen,
                   get_new_connection_id(cidlen, rand1, rand2))
  /\ UNCHANGED <<client, conn, now, h2, dread, push, conn_handler, route, rq, closing, hm, certs, dtor, att, wp, tmo, sdb, upl>>

CidNext ==
  \/ QuicInitCids
  \/ NewConnectionId

\* ---------------------------------------------------------------------
\* h2load QUIC client engine: closing the connection.  The Client the call
\* acts on is one the engine produces: with or without a QUIC connection,
\* with or without a blocked send waiting, with or without an error recorded.
\* ---------------------------------------------------------------------

\* Lengths of the CONNECTION_CLOSE packet.
MaxCloseLen == 2

\* What ngtcp2_conn_write_connection_close returns: the length of the
\* packet, 0 when there is none to send, or a library error.
CloseWriteResults == {NGTCP2_ERR_CALLBACK_FAILURE, 0} \cup (1..MaxCloseLen)

CloseInit ==
  closing = [pc |-> "start", before |-> ClientInit, c |-> ClientInit]

\* The Client as it is when the connection is to be closed: after quic_free
\* or before quic_init it has no connection; a send the OS refused earlier
\* may be waiting in the blocked descriptor.
CloseClient ==
  /\ closing.pc = "start"
  /\ \E has_conn \in BOOLEAN, last_error \in {0, NGTCP2_ERR_PROTO},
        blocked \in BOOLEAN :
       \E remote \in (IF blocked THEN Remotes ELSE {NoAddr}),
          len \in (IF blocked THEN 1..QUIC_TX_DATALEN ELSE {0}),
          gso_size \in (IF blocked THEN GsoSizes ELSE {0}) :
         LET c0 == [ClientInit EXCEPT !.quic.conn = has_conn,
                                      !.quic.last_error = last_error]
             c1 == IF blocked
                     THEN on_send_blocked(c0, remote, 0, len, gso_size)
                     ELSE c0
             c2 == [c1 EXCEPT !.log = <<>>]
         IN  closing' = [pc |-> "open", before |-> c2, c |-> c2]
  /\ UNCHANGED <<client, conn, now, h2, dread, push, conn_handler, route, rq, cidgen, hm, certs, dtor, att, wp, tmo, sdb, upl>>

\* Client::quic_close_connection is called.
CloseConnection ==
  /\ closing.pc = "open"
  /\ \E nwrite \in (IF closing.c.quic.conn THEN CloseWriteResults ELSE {0}) :
       \E remote \in (IF nwrite > 0 THEN Remotes ELSE {NoAddr}),
          k \in 0..(IF nwrite > 0 THEN nwrite ELSE 0) :
         closing' = [closing EXCEPT
                       !.pc = "closed",
                       !.c = quic_close_connection(closing.c, nwrite, remote, k)]
  /\ UNCHANGED <<client, conn, now, h2, dread, push, conn_handler, route, rq, cidgen, hm, certs, dtor, att, wp, tmo, sdb, upl>>

CloseNext ==
  \/ CloseClient
  \/ CloseConnection

\* ---------------------------------------------------------------------
\* TLS host names (shrpx_tls): tls_hostname_match and CertLookupTree.  A name
\* is the sequence of its characters.
\* ---------------------------------------------------------------------

UpperCase == <<"A", "B", "C", "D", "E", "F", "G", "H", "I", "J", "K", "L", "M", "N", "O", "P", "Q", "R", "S", "T", "U", "V", "W", "X", "Y", "Z">>

LowerCase == <<"a", "b", "c", "d", "e", "f", "g", "h", "i", "j", "k", "l", "m", "n", "o", "p", "q", "r", "s", "t", "u", "v", "w", "x", "y", "z">>

\* util::lowcase
tolower(ch) ==
  IF \E i \in 1..Len(UpperCase) : UpperCase[i] = ch
    THEN LowerCase[CHOOSE i \in 1..Len(UpperCase) : UpperCase[i] = ch]
    ELSE ch

\* util::strieq: equality of two names, letter case ignored.
strieq(a, b) ==
  /\ Len(a) = Len(b)
  /\ \A i \in 1..Len(a) : tolower(a[i]) = tolower(b[i])

\* util::istarts_with
istarts_with(a, prefix) ==
  /\ Len(prefix) <= Len(a)
  /\ strieq(SubSeq(a, 1, Len(prefix)), prefix)

\* util::iends_with
iends_with(a, suffix) ==
  /\ Len(suffix) <= Len(a)
  /\ strieq(SubSeq(a, Len(a) - Len(suffix) + 1, Len(a)), suffix)

\* std::find: the position of the first ch at or after position from, or
\* Len(s) + 1 when there is none.
find(s, from, ch) ==
  IF \E i \in from..Len(s) : s[i] = ch
    THEN CHOOSE i \in from..Len(s) :
           s[i] = ch /\ \A j \in from..(i - 1) : s[j] # ch
    ELSE Len(s) + 1

\* Whether the wildcard of a pattern is honoured: the '*' is in the leftmost
\* label and at least two dots follow it.
wildcard_enabled(pattern) ==
  LET star == find(pattern, 1, "*")
      dot == find(pattern, 1, ".")
  IN  /\ star <= Len(pattern)
      /\ dot <= Len(pattern)
      /\ star < dot
      /\ find(pattern, dot + 1, ".") <= Len(pattern)

\* tls_hostname_match that lets the wildcard stand for no character at all.
tls_hostname_match_EmptyWildcard(pattern, hostname) ==
  IF ~wildcard_enabled(pattern)
    THEN strieq(pattern, hostname)
    ELSE LET star == find(pattern, 1, "*")
             pdot == find(pattern, 1, ".")
             hdot == find(hostname, 1, ".")
             hlabel == SubSeq(hostname, 1, hdot - 1)
         IN  /\ hdot <= Len(hostname)
             /\ strieq(SubSeq(pattern, pdot, Len(pattern)),
                       SubSeq(hostname, hdot, Len(hostname)))
             /\ istarts_with(hlabel, SubSeq(pattern, 1, star - 1))
             /\ iends_with(hlabel, SubSeq(pattern, star + 1, pdot - 1))

\* tls::tls_hostname_match: without an honoured wildcard the two names are
\* compared as they are, letter case ignored; with one, everything from the
\* first dot on must be equal, and the leftmost label of the host name must
\* begin with what precedes the '*', end with what follows it, and be at
\* least as long as the pattern's label, so that '*' stands for one character
\* or more.
tls_hostname_match(pattern, hostname) ==
  IF ~wildcard_enabled(pattern)
    THEN strieq(pattern, hostname)
    ELSE LET star == find(pattern, 1, "*")
             pdot == find(pattern, 1, ".")
             hdot == find(hostname, 1, ".")
             hlabel == SubSeq(hostname, 1, hdot - 1)
         IN  /\ hdot <= Len(hostname)
             /\ strieq(SubSeq(pattern, pdot, Len(pattern)),
                       SubSeq(hostname, hdot, Len(hostname)))
             /\ Len(hlabel) >= pdot - 1
             /\ istarts_with(hlabel, SubSeq(pattern, 1, star - 1))
             /\ iends_with(hlabel, SubSeq(pattern, star + 1, pdot - 1))

\* The names of test_shrpx_tls_tls_hostname_match.
example_com == <<"e", "x", "a", "m", "p", "l", "e", ".", "c", "o", "m">>

EXAMPLE_com == <<"E", "X", "A", "M", "P", "L", "E", ".", "c", "o", "m">>

www_example_com == <<"w", "w", "w", ".", "e", "x", "a", "m", "p", "l", "e", ".", "c", "o", "m">>

www1_example_com == <<"w", "w", "w", "1", ".", "e", "x", "a", "m", "p", "l", "e", ".", "c", "o", "m">>

WWW12_EXAMPLE_com == <<"W", "W", "W", "1", "2", ".", "E", "X", "A", "M", "P", "L", "E", ".", "c", "o", "m">>

blog_my_example_com == <<"b", "l", "o", "g", ".", "m", "y", ".", "e", "x", "a", "m", "p", "l", "e", ".", "c", "o", "m">>

server_example_com == <<"s", "e", "r", "v", "e", "r", ".", "e", "x", "a", "m", "p", "l", "e", ".", "c", "o", "m">>

client1_example_com == <<"c", "l", "i", "e", "n", "t", "1", ".", "e", "x", "a", "m", "p", "l", "e", ".", "c", "o", "m">>

nghttp2_org == <<"n", "g", "h", "t", "t", "p", "2", ".", "o", "r", "g">>

star_example_com == <<"*", ".", "e", "x", "a", "m", "p", "l", "e", ".", "c", "o", "m">>

star_w_example_com == <<"*", "w", ".", "e", "x", "a", "m", "p", "l", "e", ".", "c", "o", "m">>

www_star_example_com == <<"w", "w", "w", "*", ".", "e", "x", "a", "m", "p", "l", "e", ".", "c", "o", "m">>

star_com == <<"*", ".", "c", "o", "m">>

star_alone == <<"*">>

blog_star_example_com == <<"b", "l", "o", "g", ".", "*", ".", "e", "x", "a", "m", "p", "l", "e", ".", "c", "o", "m">>

client_star_example_com == <<"c", "l", "i", "e", "n", "t", "*", ".", "e", "x", "a", "m", "p", "l", "e", ".", "c", "o", "m">>

\* Short names over a few characters, to cover the shapes the test does not.
ShortLabels == {<<"a">>, <<"A">>, <<"b">>, <<"a", "b">>, <<"b", "a">>}

ShortPatternLabels == ShortLabels \cup {<<"*">>, <<"*", "a">>, <<"a", "*">>, <<"a", "*", "b">>}

ShortSuffixes == {<< >>, <<".", "c">>, <<".", "b", ".", "c">>, <<".", "B", ".", "c">>, <<".", "*", ".", "c">>}

MatchPatterns == {example_com, www_example_com, star_example_com, star_w_example_com, www_star_example_com, star_com, star_alone, blog_star_example_com, client_star_example_com} \cup {l \o r : l \in ShortPatternLabels, r \in ShortSuffixes}

MatchHostnames == {example_com, EXAMPLE_com, www_example_com, www1_example_com, WWW12_EXAMPLE_com, blog_my_example_com, server_example_com, client1_example_com, nghttp2_org} \cup {l \o r : l \in ShortLabels, r \in ShortSuffixes \ {<<".", "*", ".", "c">>}}

MatchInit ==
  hm = [called |-> FALSE, pattern |-> << >>, hostname |-> << >>, result |-> FALSE]

\* tls_hostname_match(pattern, hostname) is called.
HostnameMatch ==
  /\ ~hm.called
  /\ \E pattern \in MatchPatterns, hostname \in MatchHostnames :
       hm' = [called |-> TRUE, pattern |-> pattern, hostname |-> hostname,
              result |-> tls_hostname_match(pattern, hostname)]
  /\ UNCHANGED <<client, conn, now, h2, dread, push, conn_handler, route, rq, cidgen, closing, certs, dtor, att, wp, tmo, sdb, upl>>

MatchNext == HostnameMatch

\* tls::CertLookupTree.  The tree is described by its leaves, in the order
\* they were made: the pattern a leaf stands for and the index it carries.

\* The names of test_shrpx_tls_create_lookup_tree.
www_example_org == <<"w", "w", "w", ".", "e", "x", "a", "m", "p", "l", "e", ".", "o", "r", "g">>

star_www_example_org == <<"*", "w", "w", "w", ".", "e", "x", "a", "m", "p", "l", "e", ".", "o", "r", "g">>

xy_star_host_domain == <<"x", "y", "*", ".", "h", "o", "s", "t", ".", "d", "o", "m", "a", "i", "n">>

star_yy_host_domain == <<"*", "y", "y", ".", "h", "o", "s", "t", ".", "d", "o", "m", "a", "i", "n">>

nghttp2_sourceforge_net == <<"n", "g", "h", "t", "t", "p", "2", ".", "s", "o", "u", "r", "c", "e", "f", "o", "r", "g", "e", ".", "n", "e", "t">>

sourceforge_net == <<"s", "o", "u", "r", "c", "e", "f", "o", "r", "g", "e", ".", "n", "e", "t">>

star_foo_bar == <<"*", ".", "f", "o", "o", ".", "b", "a", "r">>

oo_bar == <<"o", "o", ".", "b", "a", "r">>

two_www_example_org == <<"2", "w", "w", "w", ".", "e", "x", "a", "m", "p", "l", "e", ".", "o", "r", "g">>

www2_example_org == <<"w", "w", "w", "2", ".", "e", "x", "a", "m", "p", "l", "e", ".", "o", "r", "g">>

xy1_host_domain == <<"x", "y", "1", ".", "h", "o", "s", "t", ".", "d", "o", "m", "a", "i", "n">>

yy_host_domain == <<"y", "y", ".", "h", "o", "s", "t", ".", "d", "o", "m", "a", "i", "n">>

xyy_host_domain == <<"x", "y", "y", ".", "h", "o", "s", "t", ".", "d", "o", "m", "a", "i", "n">>

x_foo_bar == <<"x", ".", "f", "o", "o", ".", "b", "a", "r">>

pdylay_sourceforge_net == <<"p", "d", "y", "l", "a", "y", ".", "s", "o", "u", "r", "c", "e", "f", "o", "r", "g", "e", ".", "n", "e", "t">>

dot_sourceforge_net == <<".", "s", "o", "u", "r", "c", "e", "f", "o", "r", "g", "e", ".", "n", "e", "t">>

host_domain == <<"h", "o", "s", "t", ".", "d", "o", "m", "a", "i", "n">>

a_b_foo_bar == <<"a", ".", "b", ".", "f", "o", "o", ".", "b", "a", "r">>

XYY_Host_Domain == <<"X", "Y", "Y", ".", "H", "o", "s", "t", ".", "D", "o", "m", "a", "i", "n">>

\* hostnames[] of the test: the pattern at each index, 0 to 9.
CertHostnames == <<example_com, www_example_org, star_www_example_org, xy_star_host_domain, star_yy_host_domain, nghttp2_sourceforge_net, sourceforge_net, sourceforge_net, star_foo_bar, oo_bar>>

\* add_cert calls made on one tree.
MaxCerts == 2

\* The host names looked up.
LookupHostnames == {example_com, www_example_org, two_www_example_org, www2_example_org, xy1_host_domain, yy_host_domain, xyy_host_domain, << >>, nghttp2_sourceforge_net, sourceforge_net, pdylay_sourceforge_net, dot_sourceforge_net, x_foo_bar, oo_bar, host_domain, a_b_foo_bar, XYY_Host_Domain}

\* The priority of a pattern: 1 exact, 2 left-label wildcard
\* ('*w.example.org'), 3 middle wildcard ('xy*.host.domain'), 4 parent-suffix
\* wildcard ('*.foo.bar').
pattern_priority(pattern) ==
  LET pos == find(pattern, 1, "*")
  IN  IF pos > Len(pattern) THEN 1
      ELSE IF pos > 1 THEN 3
      ELSE IF Len(pattern) >= 2 /\ pattern[2] = "." THEN 4
      ELSE 2

\* Whether a wildcard pattern stands for a host name when the '*' may stand
\* for nothing.
wildcard_match_AllowEmpty(pattern, hostname) ==
  LET pos == find(pattern, 1, "*")
      n == Len(hostname) - Len(pattern) + 1
  IN  /\ pos <= Len(pattern)
      /\ n >= 0
      /\ istarts_with(hostname, SubSeq(pattern, 1, pos - 1))
      /\ iends_with(hostname, SubSeq(pattern, pos + 1, Len(pattern)))
      /\ \A i \in pos..(pos + n - 1) : hostname[i] # "."

\* Whether a wildcard pattern stands for a host name: the host name begins
\* with what precedes the '*' and ends with what follows it, and what is left
\* for the '*' is one character or more, none of them a dot.
wildcard_match(pattern, hostname) ==
  LET pos == find(pattern, 1, "*")
      n == Len(hostname) - Len(pattern) + 1
  IN  /\ pos <= Len(pattern)
      /\ n >= 1
      /\ istarts_with(hostname, SubSeq(pattern, 1, pos - 1))
      /\ iends_with(hostname, SubSeq(pattern, pos + 1, Len(pattern)))
      /\ \A i \in pos..(pos + n - 1) : hostname[i] # "."

\* The leaves a host name reaches.
matching_leaves(tree, hostname) ==
  {i \in 1..Len(tree) :
     IF pattern_priority(tree[i].pattern) = 1
       THEN strieq(tree[i].pattern, hostname)
       ELSE wildcard_match(tree[i].pattern, hostname)}

\* CertLookupTree::add_cert that gives the leaf of a pattern already present
\* the new index.
add_cert_Overwrite(tree, hostname, idx) ==
  IF \E i \in 1..Len(tree) : strieq(tree[i].pattern, hostname)
    THEN [tree |-> [i \in 1..Len(tree) |->
                      IF strieq(tree[i].pattern, hostname)
                        THEN [tree[i] EXCEPT !.idx = idx] ELSE tree[i]],
          rv |-> idx]
    ELSE [tree |-> Append(tree, [pattern |-> hostname, idx |-> idx]),
          rv |-> idx]

\* CertLookupTree::add_cert: a pattern already present keeps its leaf and the
\* index of that leaf is returned; a new pattern gets a leaf carrying idx.
add_cert(tree, hostname, idx) ==
  IF \E i \in 1..Len(tree) : strieq(tree[i].pattern, hostname)
    THEN [tree |-> tree,
          rv |-> tree[CHOOSE i \in 1..Len(tree) :
                        strieq(tree[i].pattern, hostname)].idx]
    ELSE [tree |-> Append(tree, [pattern |-> hostname, idx |-> idx]),
          rv |-> idx]

\* CertLookupTree::lookup: -1 for the empty host name and when no leaf is
\* reached, else the index of the reached leaf of the highest priority.  The
\* result is a set: which of several reached leaves of one priority wins is
\* not laid down.
lookup(tree, hostname) ==
  LET reached == matching_leaves(tree, hostname)
      best == {i \in reached : \A j \in reached :
                 pattern_priority(tree[i].pattern) <= pattern_priority(tree[j].pattern)}
  IN  IF hostname = << >> \/ reached = {}
        THEN {-1}
        ELSE {tree[i].idx : i \in best}

NoLookup == [hostname |-> << >>, result |-> -2]

CertsInit ==
  certs = [tree |-> << >>, log |-> << >>, rv |-> 0, last |-> NoLookup]

\* tree->add_cert(hostnames[idx], idx)
AddCert ==
  /\ Len(certs.log) < MaxCerts
  /\ \E idx \in 0..(Len(CertHostnames) - 1) :
       LET out == add_cert(certs.tree, CertHostnames[idx + 1], idx)
       IN  certs' = [tree |-> out.tree, log |-> Append(certs.log, idx),
                     rv |-> out.rv, last |-> NoLookup]
  /\ UNCHANGED <<client, conn, now, h2, dread, push, conn_handler, route, rq, cidgen, closing, hm, dtor, att, wp, tmo, sdb, upl>>

\* tree->lookup(hostname)
Lookup ==
  /\ \E hostname \in LookupHostnames :
       \E result \in lookup(certs.tree, hostname) :
         certs' = [certs EXCEPT !.last = [hostname |-> hostname,
                                          result |-> result]]
  /\ UNCHANGED <<client, conn, now, h2, dread, push, conn_handler, route, rq, cidgen, closing, hm, dtor, att, wp, tmo, sdb, upl>>

CertsNext ==
  \/ AddCert
  \/ Lookup

\* ---------------------------------------------------------------------
\* The destructor of a connection, run on the sessions and Downstreams the
\* rest of the proxy hands it: the upstream and the session's callbacks move
\* a Downstream through its request and response states and mark it upgraded.
\* ---------------------------------------------------------------------

SessionStates == {DISCONNECTED, CONNECTING, CONNECTED, DISCONNECTING}

\* A session with connection 1, attached to Downstream 1 or to none; the
\* Downstream has stream 1 when opened.
DtorSession(st, attached, opened, request_state, upgraded, response_state, unconsumed) ==
  [Http2Init EXCEPT
     !.session.state = st,
     !.session.dconns = IF attached THEN <<1>> ELSE << >>,
     !.session.next_stream_id = IF attached /\ opened THEN 3 ELSE 1,
     !.streams = IF attached /\ opened
                   THEN <<[dconn |-> 1, delivered |-> unconsumed, consumed |-> 0]>>
                   ELSE << >>,
     !.dconns[1] = [life |-> IF attached THEN "attached" ELSE "new",
                    downstream_ |-> IF attached THEN 1 ELSE 0,
                    sd_ |-> IF attached /\ opened THEN 1 ELSE 0],
     !.downstreams[1] =
        IF attached
          THEN [NewDownstream(IF upgraded THEN WebSocketReq ELSE GetReq) EXCEPT
                  !.stream_id = IF opened THEN 1 ELSE -1,
                  !.push_called = opened,
                  !.request_state = request_state,
                  !.response_state = response_state,
                  !.upgraded = upgraded,
                  !.unconsumed_body_length = IF opened THEN unconsumed ELSE 0,
                  !.rtimer = TRUE]
          ELSE @]

DtorInit ==
  dtor = [called |-> FALSE, before |-> Http2Init, h |-> Http2Init]

\* delete dconn
DestructorCall ==
  /\ ~dtor.called
  /\ \E st \in SessionStates, attached \in BOOLEAN, opened \in BOOLEAN, request_state \in {INITIAL, HEADER_COMPLETE, MSG_COMPLETE, STREAM_CLOSED}, upgraded \in BOOLEAN, response_state \in {INITIAL, HEADER_COMPLETE, MSG_COMPLETE, MSG_RESET}, unconsumed \in 0..1, rst_rv \in {0, -1} :
       LET h0 == DtorSession(st, attached, opened, request_state, upgraded, response_state, unconsumed)
       IN  dtor' = [called |-> TRUE, before |-> h0, h |-> Destructor(h0, 1, rst_rv)]
  /\ UNCHANGED <<client, conn, now, h2, dread, push, conn_handler, route, rq, cidgen, closing, hm, certs, att, wp, tmo, sdb, upl>>

DtorNext == DestructorCall

\* ---------------------------------------------------------------------
\* attach_downstream and detach_downstream as an interface: the calls are
\* made in any order, on any connection, with any Downstream.
\* ---------------------------------------------------------------------

\* attach_downstream calls on one session.
MaxAttach == 3

AttachInit ==
  att = [h |-> [Http2Init EXCEPT
                  !.dconns = [i \in DConns |-> [life |-> "new", downstream_ |-> 0, sd_ |-> 0]]]]

\* dconn->attach_downstream(downstream)
AttachCall(i, d) ==
  /\ Len(att.h.session.dconns) < MaxAttach
  /\ att' = [h |-> attach_downstream(att.h, i, d)]
  /\ UNCHANGED <<client, conn, now, h2, dread, push, conn_handler, route, rq, cidgen, closing, hm, certs, dtor, wp, tmo, sdb, upl>>

\* dconn->detach_downstream(downstream); the connection object lives on.
DetachCall(i) ==
  /\ att.h.dconns[i].downstream_ # 0
  /\ \E rst_rv \in {0, -1} :
       att' = [h |-> detach_downstream(att.h, i, rst_rv)]
  /\ UNCHANGED <<client, conn, now, h2, dread, push, conn_handler, route, rq, cidgen, closing, hm, certs, dtor, wp, tmo, sdb, upl>>

AttachNext ==
  \/ \E i \in DConns, d \in DConns : AttachCall(i, d)
  \/ \E i \in DConns : DetachCall(i)

\* The life of the connection objects of one session: a connection is
\* constructed, attached, detached, attached again and destroyed; each call is
\* made on an object that exists, and attach_downstream on a connection that
\* holds no Downstream, with a Downstream no connection refers to.

\* new Http2DownstreamConnection(http2session): dlnext, dlprev, downstream_ and
\* sd_ start null.
LinkNew(i) ==
  /\ att.h.dconns[i].life = "deleted"
  /\ att' = [h |-> [att.h EXCEPT
                      !.dconns[i] = [life |-> "new", downstream_ |-> 0, sd_ |-> 0],
                      !.log = <<[op |-> "Http2DownstreamConnection", dconn |-> i]>>]]
  /\ UNCHANGED <<client, conn, now, h2, dread, push, conn_handler, route, rq, cidgen, closing, hm, certs, dtor, wp, tmo, sdb, upl>>

\* dconn->attach_downstream(downstream) on a connection that holds none
LinkAttach(i, d) ==
  /\ att.h.dconns[i].life \in {"new", "detached"}
  /\ \A j \in DConns : att.h.dconns[j].downstream_ # d
  /\ AttachCall(i, d)

\* delete dconn
LinkDestroy(i) ==
  /\ att.h.dconns[i].life \in {"new", "attached", "detached"}
  /\ \E rst_rv \in {0, -1} :
       att' = [h |-> Destructor(att.h, i, rst_rv)]
  /\ UNCHANGED <<client, conn, now, h2, dread, push, conn_handler, route, rq, cidgen, closing, hm, certs, dtor, wp, tmo, sdb, upl>>

LinkNext ==
  \/ \E i \in DConns : LinkNew(i)
  \/ \E i \in DConns, d \in DConns : LinkAttach(i, d)
  \/ \E i \in DConns : DetachCall(i)
  \/ \E i \in DConns : LinkDestroy(i)


\* ---------------------------------------------------------------------
\* attach_stream_data and detach_stream_data as an interface: the calls are
\* made in any order, on any connection, with any StreamData of the session.
\* ---------------------------------------------------------------------

\* The streams whose StreamData the session holds.
SdStreams == {1, 3, 5, 7}

NoSdCall == [op |-> "none", dconn |-> 0, sd |-> 0, rv |-> 0]

SdInit ==
  sdb = [h |-> [Http2Init EXCEPT
                  !.dconns = [i \in DConns |-> [life |-> "attached", downstream_ |-> i, sd_ |-> 0]],
                  !.streams = [k \in 1..Cardinality(SdStreams) |->
                                 [dconn |-> 0, delivered |-> 0, consumed |-> 0]]],
         last |-> NoSdCall]

\* dconn->attach_stream_data(sd)
AttachStreamData(i, sd) ==
  /\ sdb' = [h |-> attach_stream_data(sdb.h, i, sd),
             last |-> [op |-> "attach_stream_data", dconn |-> i, sd |-> sd, rv |-> 0]]
  /\ UNCHANGED <<client, conn, now, h2, dread, push, conn_handler, route, rq, cidgen, closing, hm, certs, dtor, att, wp, tmo, upl>>

\* dconn->detach_stream_data(): returns the StreamData that was bound (0: nullptr)
DetachStreamData(i) ==
  /\ sdb' = [h |-> detach_stream_data(sdb.h, i),
             last |-> [op |-> "detach_stream_data", dconn |-> i, sd |-> 0,
                       rv |-> sdb.h.dconns[i].sd_]]
  /\ UNCHANGED <<client, conn, now, h2, dread, push, conn_handler, route, rq, cidgen, closing, hm, certs, dtor, att, wp, tmo, upl>>

SdNext ==
  \/ \E i \in DConns, sd \in SdStreams : AttachStreamData(i, sd)
  \/ \E i \in DConns : DetachStreamData(i)

\* ---------------------------------------------------------------------
\* The request body: push_upload_data_chunk and end_upload_data feed the
\* Downstream's buffers; the session sends the request headers and then asks
\* the stream's data provider for the body whenever the stream is not
\* deferred and a write was signalled.  The session (Http2Session over
\* nghttp2) is not in src; it is modelled as the specification describes it.
\* ---------------------------------------------------------------------

\* Request body bytes the upstream pushes.
MaxUpload == 2

\* Http2Session::resume_data: the stream's deferred data provider is made
\* runnable again; rv is what the call returns.  u.resumed counts the calls
\* that found the provider deferred.
resume_data(u, rv) ==
  [u EXCEPT !.deferred = IF rv = 0 THEN FALSE ELSE @,
            !.resumed = IF rv = 0 /\ u.deferred THEN @ + 1 ELSE @,
            !.rv = rv,
            !.log = Append(@, [op |-> "resume_data"])]

\* Downstream::ensure_downstream_wtimer
ensure_downstream_wtimer(u) ==
  [u EXCEPT !.wtimer = TRUE, !.log = Append(@, [op |-> "ensure_downstream_wtimer"])]

\* http2session_->signal_write()
http2session_signal_write(u) ==
  [u EXCEPT !.write_pending = TRUE, !.log = Append(@, [op |-> "signal_write"])]

\* push_upload_data_chunk that appends the bytes and wakes nothing.
push_upload_data_chunk_NoResume(u, datalen, resume_rv) ==
  LET u0 == [u EXCEPT !.log = <<[op |-> "push_upload_data_chunk", datalen |-> datalen]>>]
  IN  IF ~u.header_sent
        THEN [u0 EXCEPT !.blocked_buf = @ + datalen,
                        !.unconsumed_body_length = @ + datalen, !.rv = 0]
        ELSE [u0 EXCEPT !.request_buf = @ + datalen, !.rv = 0]

\* Http2DownstreamConnection::push_upload_data_chunk
push_upload_data_chunk(u, datalen, resume_rv) ==
  LET u0 == [u EXCEPT !.log = <<[op |-> "push_upload_data_chunk", datalen |-> datalen]>>]
  IN  IF ~u.header_sent
        THEN [u0 EXCEPT !.blocked_buf = @ + datalen,
                        !.unconsumed_body_length = @ + datalen, !.rv = 0]
        ELSE LET u1 == [u0 EXCEPT !.request_buf = @ + datalen]
             IN  IF u.stream_id # -1
                   THEN LET u2 == resume_data(u1, resume_rv)
                        IN  IF u2.rv # 0
                              THEN [u2 EXCEPT !.rv = -1]
                              ELSE [http2session_signal_write(
                                      ensure_downstream_wtimer(u2))
                                      EXCEPT !.rv = 0]
                   ELSE [u1 EXCEPT !.rv = 0]

\* Http2DownstreamConnection::end_upload_data
end_upload_data(u, resume_rv) ==
  LET u0 == [u EXCEPT !.log = <<[op |-> "end_upload_data"]>>]
  IN  IF ~u.header_sent
        THEN [u0 EXCEPT !.blocked_eof = TRUE, !.rv = 0]
        ELSE IF u.stream_id # -1
          THEN LET u2 == resume_data(u0, resume_rv)
               IN  IF u2.rv # 0
                     THEN [u2 EXCEPT !.rv = -1]
                     ELSE [http2session_signal_write(ensure_downstream_wtimer(u2))
                             EXCEPT !.rv = 0]
          ELSE [u0 EXCEPT !.rv = 0]

\* What the data provider sees of the request
DataReadInputOf(u, length) ==
  [sd |-> TRUE, dconn |-> TRUE, downstream |-> TRUE,
   rleft |-> u.request_buf, length |-> length,
   request_state |-> u.request_state,
   upgrade_request |-> u.upgrade_request, response_state |-> u.response_state,
   upgraded |-> u.upgraded, trailers |-> "none", submit_trailer_rv |-> 0,
   wtimer |-> u.wtimer]

UploadInit ==
  upl = [pc |-> "new", upgrade_request |-> FALSE, response_state |-> INITIAL,
         upgraded |-> FALSE, stream_id |-> -1, header_sent |-> FALSE,
         blocked_buf |-> 0, blocked_eof |-> FALSE, request_buf |-> 0,
         unconsumed_body_length |-> 0, request_state |-> HEADER_COMPLETE,
         deferred |-> FALSE, write_pending |-> FALSE, wtimer |-> FALSE,
         handed |-> 0, eof |-> FALSE, pushed |-> 0, failed |-> FALSE, resumed |-> 0,
         rv |-> 0, log |-> << >>]

\* A Downstream whose request expects a body is attached; the request is an
\* upgrade request (CONNECT, WebSocket) or not.
UploadStart ==
  /\ upl.pc = "new"
  /\ \E upgrade_request \in BOOLEAN :
       upl' = [upl EXCEPT !.pc = "run", !.upgrade_request = upgrade_request,
                          !.log = <<[op |-> "attach_downstream"]>>]
  /\ UNCHANGED <<client, conn, now, h2, dread, push, conn_handler, route, rq, cidgen, closing, hm, certs, dtor, att, wp, tmo, sdb>>

\* push_request_headers submits the request with a data provider: the stream
\* is opened, the write timer is reset and write is signalled.
UploadSubmitRequest ==
  /\ upl.pc = "run" /\ ~upl.failed
  /\ upl.stream_id = -1
  /\ upl' = [http2session_signal_write(
               [upl EXCEPT !.log = <<[op |-> "push_request_headers"]>>])
               EXCEPT !.stream_id = 1, !.wtimer = TRUE, !.rv = 0]
  /\ UNCHANGED <<client, conn, now, h2, dread, push, conn_handler, route, rq, cidgen, closing, hm, certs, dtor, att, wp, tmo, sdb>>

\* The upstream hands over datalen bytes of request body.
PushUploadDataChunk ==
  /\ upl.pc = "run" /\ ~upl.failed
  /\ upl.request_state # MSG_COMPLETE
  /\ upl.pushed < MaxUpload
  /\ \E datalen \in 1..(MaxUpload - upl.pushed), resume_rv \in {0, -1} :
       LET u == push_upload_data_chunk(upl, datalen, resume_rv)
       IN  upl' = [u EXCEPT !.pushed = @ + datalen, !.failed = (u.rv # 0)]
  /\ UNCHANGED <<client, conn, now, h2, dread, push, conn_handler, route, rq, cidgen, closing, hm, certs, dtor, att, wp, tmo, sdb>>

\* The upstream saw the end of the request body: it calls end_upload_data and
\* marks the request MSG_COMPLETE.
EndUploadData ==
  /\ upl.pc = "run" /\ ~upl.failed
  /\ upl.request_state # MSG_COMPLETE
  /\ \E resume_rv \in {0, -1} :
       LET u == end_upload_data(upl, resume_rv)
       IN  upl' = [u EXCEPT !.request_state = MSG_COMPLETE, !.failed = (u.rv # 0)]
  /\ UNCHANGED <<client, conn, now, h2, dread, push, conn_handler, route, rq, cidgen, closing, hm, certs, dtor, att, wp, tmo, sdb>>

\* The session wrote the request HEADERS: the request header is marked sent
\* and what waits in the blocked-request buffer moves to the request buffer,
\* resuming the data provider.
SessionSendHeaders ==
  /\ upl.pc = "run" /\ ~upl.failed
  /\ upl.stream_id # -1 /\ ~upl.header_sent /\ upl.write_pending
  /\ \E resume_rv \in {0, -1} :
       LET u0 == [upl EXCEPT !.header_sent = TRUE,
                             !.log = <<[op |-> "on_frame_send"]>>]
       IN  IF upl.blocked_buf > 0
             THEN LET u1 == resume_data([u0 EXCEPT !.request_buf = @ + upl.blocked_buf,
                                                   !.blocked_buf = 0],
                                        resume_rv)
                  IN  upl' = IF u1.rv # 0
                               THEN [u1 EXCEPT !.failed = TRUE]
                               ELSE ensure_downstream_wtimer(u1)
             ELSE upl' = [u0 EXCEPT !.rv = 0]
  /\ UNCHANGED <<client, conn, now, h2, dread, push, conn_handler, route, rq, cidgen, closing, hm, certs, dtor, att, wp, tmo, sdb>>

\* The session, writing, asks the data provider of the stream for up to
\* length bytes; DEFERRED parks the stream until it is resumed.
SessionReadData ==
  /\ upl.pc = "run" /\ ~upl.failed
  /\ upl.stream_id # -1 /\ upl.header_sent
  /\ upl.write_pending /\ ~upl.deferred /\ ~upl.eof
  /\ \E length \in 1..MaxReadLen :
       LET out == http2_data_read_callback(DataReadInputOf(upl, length))
           u0  == [upl EXCEPT !.log = <<[op |-> "http2_data_read_callback",
                                         rv |-> out.rv]>>,
                              !.wtimer = out.wtimer, !.rv = out.rv]
       IN  upl' = IF out.rv = NGHTTP2_ERR_DEFERRED
                    THEN [u0 EXCEPT !.deferred = TRUE, !.write_pending = FALSE]
                    ELSE [u0 EXCEPT
                            !.request_buf = @ - out.rv,
                            !.handed = @ + out.rv,
                            !.eof = NGHTTP2_DATA_FLAG_EOF \in out.data_flags,
                            !.write_pending = NGHTTP2_DATA_FLAG_EOF \notin out.data_flags]
  /\ UNCHANGED <<client, conn, now, h2, dread, push, conn_handler, route, rq, cidgen, closing, hm, certs, dtor, att, wp, tmo, sdb>>

\* The origin's response headers arrive; an upgrade request is accepted or not.
UploadRecvResponse ==
  /\ upl.pc = "run" /\ ~upl.failed
  /\ upl.header_sent /\ upl.response_state = INITIAL
  /\ \E upgraded \in (IF upl.upgrade_request THEN BOOLEAN ELSE {FALSE}) :
       upl' = [upl EXCEPT !.response_state = HEADER_COMPLETE,
                          !.upgraded = upgraded,
                          !.log = <<[op |-> "on_response_headers"]>>]
  /\ UNCHANGED <<client, conn, now, h2, dread, push, conn_handler, route, rq, cidgen, closing, hm, certs, dtor, att, wp, tmo, sdb>>

UploadNext ==
  \/ UploadStart
  \/ UploadSubmitRequest
  \/ PushUploadDataChunk
  \/ EndUploadData
  \/ SessionSendHeaders
  \/ SessionReadData
  \/ UploadRecvResponse

\* ---------------------------------------------------------------------
\* h2load QUIC client engine: write_quic_pkt, the callback that fills one
\* packet.  The HTTP/3 session (Http3Session over nghttp3) keeps, for each
\* stream, the bytes still to write, the write offset, and whether the stream
\* is blocked or shut for writing; ngtcp2_conn_writev_stream is the state
\* machine's answer to one offer.
\* ---------------------------------------------------------------------

\* Bytes a stream has to send.
MaxStreamData == 2

\* Room in the packet, in bytes; a STREAM frame costs one byte plus its data.
MaxPktSpace == 3

\* Connection-level flow-control credit.
MaxCredit == 2

NGTCP2_ERR_STREAM_DATA_BLOCKED == -210
NGTCP2_ERR_STREAM_SHUT_WR == -221
NGTCP2_ERR_WRITE_MORE == -240
NGTCP2_ERR_NOMEM == -501

StreamIds == {0, 4}

NoStreamOffer == [stream_id |-> -1, sveccnt |-> 0, datalen |-> 0]

\* Http3Session::write_stream: the offers the session can make: a stream that
\* is neither blocked nor shut and has bytes to write, no stream when there
\* is none, or failure (-1).
write_stream(w) ==
  LET ready == {id \in StreamIds : /\ ~w.streams[id].blocked
                                   /\ ~w.streams[id].shut
                                   /\ w.streams[id].left > 0}
  IN  {[stream_id |-> -1, sveccnt |-> -1, datalen |-> 0]}
        \cup (IF ready = {}
                THEN {NoStreamOffer}
                ELSE {[stream_id |-> id, sveccnt |-> 1, datalen |-> w.streams[id].left] : id \in ready})

\* A use of the session pointer s; without a session it is a null pointer.
deref(w) == [w EXCEPT !.null_deref = @ \/ ~w.session]

\* Http3Session::block_stream that leaves the stream on offer.
block_stream_Noop(w, stream_id) == deref(w)

\* Http3Session::block_stream
block_stream(w, stream_id) ==
  [deref(w) EXCEPT !.streams[stream_id].blocked = TRUE]

\* Http3Session::shutdown_stream_write
shutdown_stream_write(w, stream_id) ==
  [deref(w) EXCEPT !.streams[stream_id].shut = TRUE]

\* Http3Session::add_write_offset: the stream's write offset moves on by
\* ndatalen, unless nghttp3 fails (rv # 0).
add_write_offset(w, stream_id, ndatalen, rv) ==
  IF rv # 0
    THEN [deref(w) EXCEPT !.add_rv = rv]
    ELSE [deref(w) EXCEPT !.add_rv = 0,
                          !.streams[stream_id].offset = @ + ndatalen,
                          !.streams[stream_id].left = @ - ndatalen,
                          !.adds[stream_id] = @ + 1]

\* What the state machine did with the offer: bytes of the stream accepted
\* into the packet, room and credit used.
conn_writev_stream(w, stream_id, nwrite, ndatalen) ==
  IF ndatalen >= 0
    THEN [w EXCEPT !.accepted[stream_id] = @ + ndatalen,
                   !.chunks[stream_id] = @ + 1,
                   !.destleft = @ - (ndatalen + 1),
                   !.max_data_left = @ - ndatalen]
    ELSE w

\* No call of ngtcp2_conn_writev_stream in this pass.
NoWritev == [called |-> FALSE, stream_id |-> -1, nwrite |-> 0, ndatalen |-> -1]

WpReturn(w, rv) == [w EXCEPT !.pc = "done", !.rv = rv]

\* One pass of the loop of write_quic_pkt that does not record the final
\* chunk.
write_quic_pkt_NoFinalOffset(w, offer, nwrite, ndatalen, add_rv) ==
  IF offer.sveccnt = -1
    THEN WpReturn([deref(w) EXCEPT !.last = NoWritev], NGTCP2_ERR_CALLBACK_FAILURE)
    ELSE
      LET w0 == IF w.session /\ w.max_data_left # 0 THEN deref(w) ELSE w
          w1 == [conn_writev_stream(w0, offer.stream_id, nwrite, ndatalen)
                   EXCEPT !.last = [called |-> TRUE, stream_id |-> offer.stream_id,
                                    nwrite |-> nwrite, ndatalen |-> ndatalen]]
      IN  IF nwrite = NGTCP2_ERR_STREAM_DATA_BLOCKED
            THEN block_stream(w1, offer.stream_id)
          ELSE IF nwrite = NGTCP2_ERR_STREAM_SHUT_WR
            THEN shutdown_stream_write(w1, offer.stream_id)
          ELSE IF nwrite = NGTCP2_ERR_WRITE_MORE
            THEN LET w2 == add_write_offset(w1, offer.stream_id, ndatalen, add_rv)
                 IN  IF w2.add_rv # 0
                       THEN WpReturn(w2, NGTCP2_ERR_CALLBACK_FAILURE)
                       ELSE w2
          ELSE IF nwrite < 0
            THEN WpReturn([w1 EXCEPT !.last_error = ccerr_set_liberr(nwrite)],
                          NGTCP2_ERR_CALLBACK_FAILURE)
          ELSE WpReturn(w1, nwrite)

\* One pass of the loop of Client::write_quic_pkt.  offer: what write_stream
\* gave (taken only with a session and credit left); nwrite, ndatalen: what
\* ngtcp2_conn_writev_stream returned; add_rv: what add_write_offset returns.
write_quic_pkt(w, offer, nwrite, ndatalen, add_rv) ==
  IF offer.sveccnt = -1
    THEN WpReturn([deref(w) EXCEPT !.last = NoWritev], NGTCP2_ERR_CALLBACK_FAILURE)
    ELSE
      LET w0 == IF w.session /\ w.max_data_left # 0 THEN deref(w) ELSE w
          w1 == [conn_writev_stream(w0, offer.stream_id, nwrite, ndatalen)
                   EXCEPT !.last = [called |-> TRUE, stream_id |-> offer.stream_id,
                                    nwrite |-> nwrite, ndatalen |-> ndatalen]]
      IN  IF nwrite = NGTCP2_ERR_STREAM_DATA_BLOCKED
            THEN block_stream(w1, offer.stream_id)
          ELSE IF nwrite = NGTCP2_ERR_STREAM_SHUT_WR
            THEN shutdown_stream_write(w1, offer.stream_id)
          ELSE IF nwrite = NGTCP2_ERR_WRITE_MORE
            THEN LET w2 == add_write_offset(w1, offer.stream_id, ndatalen, add_rv)
                 IN  IF w2.add_rv # 0
                       THEN WpReturn(w2, NGTCP2_ERR_CALLBACK_FAILURE)
                       ELSE w2
          ELSE IF nwrite < 0
            THEN WpReturn([w1 EXCEPT !.last_error = ccerr_set_liberr(nwrite)],
                          NGTCP2_ERR_CALLBACK_FAILURE)
          ELSE IF ndatalen >= 0
            THEN LET w2 == add_write_offset(w1, offer.stream_id, ndatalen, add_rv)
                 IN  IF w2.add_rv # 0
                       THEN WpReturn(w2, NGTCP2_ERR_CALLBACK_FAILURE)
                       ELSE WpReturn(w2, nwrite)
          ELSE WpReturn(w1, nwrite)

\* ngtcp2_conn_writev_stream: the results the state machine can give to an
\* offer.  Without a stream it writes a packet of other frames or nothing
\* (ndatalen -1) or fails; with a stream it may also report the stream
\* blocked or shut, ask for more (room for the frame is then used up), or
\* finish the packet with or without bytes of the stream.
WritevResults(w, offer) ==
  LET none == {[nwrite |-> n, ndatalen |-> -1] : n \in {NGTCP2_ERR_NOMEM, 0, MaxPktSpace - w.destleft, MaxPktSpace}}
      most == Min(offer.datalen, Min(w.max_data_left, w.destleft - 1))
  IN  IF offer.stream_id = -1
        THEN none
        ELSE none
               \cup {[nwrite |-> NGTCP2_ERR_STREAM_DATA_BLOCKED, ndatalen |-> -1],
                     [nwrite |-> NGTCP2_ERR_STREAM_SHUT_WR, ndatalen |-> -1]}
               \cup {[nwrite |-> NGTCP2_ERR_WRITE_MORE, ndatalen |-> n] : n \in 0..most}
               \cup {[nwrite |-> MaxPktSpace - w.destleft + n + 1, ndatalen |-> n] : n \in 0..most}

WpInit ==
  wp = [pc |-> "idle", session |-> FALSE, max_data_left |-> 0,
        streams |-> [id \in StreamIds |-> [left |-> 0, offset |-> 0, blocked |-> FALSE, shut |-> FALSE]],
        accepted |-> [id \in StreamIds |-> 0], chunks |-> [id \in StreamIds |-> 0],
        adds |-> [id \in StreamIds |-> 0], destleft |-> MaxPktSpace,
        last |-> NoWritev,
        add_rv |-> 0, rv |-> 0, last_error |-> NoCcerr, null_deref |-> FALSE]

\* The state machine calls write_pkt for a packet: the client may not have an
\* HTTP/3 session yet; with one, its streams have bytes to send.
WpEnter ==
  /\ wp.pc = "idle"
  /\ \E session \in BOOLEAN, credit \in 0..MaxCredit :
       \E left \in (IF session THEN [StreamIds -> 0..MaxStreamData] ELSE {[id \in StreamIds |-> 0]}) :
         wp' = [wp EXCEPT !.pc = "loop", !.session = session,
                          !.max_data_left = credit,
                          !.streams = [id \in StreamIds |-> [wp.streams[id] EXCEPT !.left = left[id]]]]
  /\ UNCHANGED <<client, conn, now, h2, dread, push, conn_handler, route, rq, cidgen, closing, hm, certs, dtor, att, tmo, sdb, upl>>

\* One pass of for (;;) in write_quic_pkt.
WpIter ==
  /\ wp.pc = "loop"
  /\ \E offer \in (IF wp.session /\ wp.max_data_left # 0 THEN write_stream(wp) ELSE {NoStreamOffer}) :
       \E res \in (IF offer.sveccnt = -1 THEN {[nwrite |-> 0, ndatalen |-> -1]} ELSE WritevResults(wp, offer)),
          add_rv \in {0, -1} :
         wp' = write_quic_pkt(wp, offer, res.nwrite, res.ndatalen, add_rv)
  /\ UNCHANGED <<client, conn, now, h2, dread, push, conn_handler, route, rq, cidgen, closing, hm, certs, dtor, att, tmo, sdb, upl>>

WpNext ==
  \/ WpEnter
  \/ WpIter

\* ---------------------------------------------------------------------
\* on_timeout, called when a timer of the connection's Downstream fires.
\* ---------------------------------------------------------------------

\* on_timeout that resets the stream with INTERNAL_ERROR.
on_timeout_InternalError(h, i, rst_rv) ==
  LET d  == DownstreamOf(h, i)
      h0 == [h EXCEPT !.log = <<[op |-> "on_timeout", dconn |-> i]>>]
  IN  IF d = 0
        THEN [h0 EXCEPT !.rv = 0]
        ELSE submit_rst_stream(h0, i, d, NGHTTP2_INTERNAL_ERROR, rst_rv)

\* Http2DownstreamConnection::on_timeout
on_timeout(h, i, rst_rv) ==
  LET d  == DownstreamOf(h, i)
      h0 == [h EXCEPT !.log = <<[op |-> "on_timeout", dconn |-> i]>>]
  IN  IF d = 0
        THEN [h0 EXCEPT !.rv = 0]
        ELSE submit_rst_stream(h0, i, d, NGHTTP2_NO_ERROR, rst_rv)

TimeoutInit ==
  tmo = [called |-> FALSE, before |-> Http2Init, h |-> Http2Init]

\* A read or write timer of the Downstream fires and the upstream calls
\* dconn->on_timeout().
OnTimeout ==
  /\ ~tmo.called
  /\ \E st \in SessionStates, attached \in BOOLEAN, opened \in BOOLEAN, request_state \in {INITIAL, HEADER_COMPLETE, MSG_COMPLETE, STREAM_CLOSED}, upgraded \in BOOLEAN, response_state \in {INITIAL, HEADER_COMPLETE, MSG_COMPLETE, MSG_RESET, MSG_BAD_HEADER}, unconsumed \in 0..1, rst_rv \in {0, -1} :
       LET h0 == DtorSession(st, attached, opened, request_state, upgraded, response_state, unconsumed)
       IN  tmo' = [called |-> TRUE, before |-> h0, h |-> on_timeout(h0, 1, rst_rv)]
  /\ UNCHANGED <<client, conn, now, h2, dread, push, conn_handler, route, rq, cidgen, closing, hm, certs, dtor, att, wp, sdb, upl>>

TimeoutNext == OnTimeout

vars == <<client, conn, now, h2, dread, push, conn_handler, route, rq, cidgen, closing, hm, certs, dtor, att, wp, tmo, sdb, upl>>

Init ==
  /\ QuicInit /\ H2Init /\ DataReadInit /\ PushInit
  /\ HandlerInit /\ RouteInit
  /\ ReadQuicInit /\ CidInit
  /\ CloseInit /\ MatchInit /\ CertsInit
  /\ DtorInit /\ AttachInit /\ WpInit
  /\ TimeoutInit /\ SdInit /\ UploadInit

TxNext ==
  \/ WriteQuic
  \/ TerminateSession
  \/ Tick
  \/ TimerFire

\* The transmit side of the QUIC client engine.
TxSpec == Init /\ [][TxNext]_vars

RxKeyNext == RecvRxKey

\* The receive-key install events of the QUIC client engine.
RxKeySpec == Init /\ [][RxKeyNext]_vars

H2Spec == Init /\ [][H2Next]_vars

DataReadSpec == Init /\ [][DataReadNext]_vars

PushSpec == Init /\ [][PushNext]_vars

HandlerSpec == Init /\ [][HandlerNext]_vars

\* The loop thread and every worker thread run their event loops, and a
\* thread that entered send_serial_event leaves it: an async wakeup that
\* was sent is delivered, a held mutex is given back, a queued event is
\* handled, and a Downstream in flight completes.
HandlerFairness ==
  /\ \A t \in Threads : WF_vars(SendPush(t)) /\ WF_vars(SendAsync(t))
  /\ WF_vars(LoopWake) /\ WF_vars(LoopSwap) /\ WF_vars(LoopApply)
  /\ \A w \in Workers : WF_vars(WorkerProcess(w))
  /\ \A w \in Workers : WF_vars(DownstreamComplete(w))

HandlerFairSpec == HandlerSpec /\ HandlerFairness

RouteSpec == Init /\ [][RouteNext]_vars

ReadSpec == Init /\ [][ReadNext]_vars

CidSpec == Init /\ [][CidNext]_vars

CloseSpec == Init /\ [][CloseNext]_vars

MatchSpec == Init /\ [][MatchNext]_vars

CertsSpec == Init /\ [][CertsNext]_vars

DtorSpec == Init /\ [][DtorNext]_vars

AttachSpec == Init /\ [][AttachNext]_vars

WpSpec == Init /\ [][WpNext]_vars

TimeoutSpec == Init /\ [][TimeoutNext]_vars

\* The life of the connection objects of one session.
LinkSpec == Init /\ [][LinkNext]_vars

\* The binding of StreamData and connections.
SdSpec == Init /\ [][SdNext]_vars

\* The request body of one Downstream.
UploadSpec == Init /\ [][UploadNext]_vars

\* The session's event loop runs: after signal_write the session writes what
\* it can, the request HEADERS first and then what the data provider yields.
UploadFairSpec ==
  UploadSpec /\ WF_vars(SessionSendHeaders) /\ WF_vars(SessionReadData)

\* write_quic_pkt is a plain loop on one thread: once entered it keeps
\* running until it returns.
WpFairSpec == WpSpec /\ WF_vars(WpIter)

(***************************************************************************)
(* Claims about the QUIC client engine                                     *)
(***************************************************************************)

IsWriteQuicStep == client'.log # <<>> /\ client'.log[1].op = "write_quic"

\* C1: over any sequence of write_quic / write_udp_or_blocked /
\* send_blocked_packet steps and any OS send outcomes, on_send_blocked is never
\* entered while quic.tx.send_blocked is already true: its assertion
\* !quic.tx.send_blocked never fails, so at most one blocked descriptor is pending.
C1_AtMostOneBlocked == "on_send_blocked" \notin client.assert_failed

\* C1 witness: one write_quic call retried the blocked descriptor, had it fully
\* accepted, wrote a new aggregate and blocked again.
C1_Witness ==
  /\ Len(client.log) >= 5
  /\ client.log[1].op = "write_quic"
  /\ client.log[2].op = "write_udp"
  /\ HasOp(client.log, "on_send_blocked")
  /\ client.quic.tx.send_blocked

\* The retry that a write_quic step starts with, when the descriptor was blocked.
RetriesBlockedFirst ==
  /\ Len(client'.log) >= 2
  /\ client'.log[2].op = "write_udp"
  /\ client'.log[2].data = BlockedData(client)
  /\ client'.log[2].remote = client.quic.tx.blocked.remote_addr
  /\ client'.log[2].gso_size = client.quic.tx.blocked.gso_size
  /\ client'.log[2].accepted = Len(BlockedData(client))
       => (client'.quic.tx.send_blocked <=> HasOp(client'.log, "on_send_blocked"))
  /\ client'.log[2].accepted < Len(BlockedData(client))
       => /\ client'.quic.tx.send_blocked
          /\ ~HasOp(client'.log, "ngtcp2_conn_write_aggregate_pkt")

\* A refused (EAGAIN) first send of a new aggregate blocks it whole and
\* re-signals writability.
RefusedAggregateBlocks ==
  \A i \in 1..Len(client'.log) :
    ( /\ client'.log[i].op = "write_udp"
      /\ client'.log[i].accepted = 0
      /\ i > 2 )
    => /\ client'.quic.tx.send_blocked
       /\ client'.wev
       /\ BlockedData(client') = client'.log[i].data
       /\ client'.quic.tx.blocked.remote_addr = client'.log[i].remote
       /\ client'.quic.tx.blocked.gso_size = client'.log[i].gso_size

\* C2 as stated: after an EAGAIN the next write_quic always starts by re-sending
\* the blocked bytes to the same remote with the same gso_size.
C2_Original ==
  [][ IsWriteQuicStep =>
        /\ RefusedAggregateBlocks
        /\ client.quic.tx.send_blocked => RetriesBlockedFirst ]_vars

\* C2 (amended): when the OS refuses a batch with EAGAIN, send_blocked becomes
\* true and writability is re-signalled; the next write_quic, unless close has
\* been requested (then it returns -1 and sends nothing), re-sends exactly the
\* same bytes to the same remote with the same gso_size before asking the state
\* machine for a new packet, and send_blocked is false after a fully accepted
\* retry unless the same call blocks a new aggregate.
C2_BlockedRetry ==
  [][ IsWriteQuicStep =>
        /\ RefusedAggregateBlocks
        /\ (client.quic.tx.send_blocked /\ ~client.quic.close_requested)
             => RetriesBlockedFirst
        /\ (client.quic.tx.send_blocked /\ client.quic.close_requested)
             => /\ client'.rv = -1
                /\ ~HasOp(client'.log, "write_udp")
                /\ client'.quic.tx = client.quic.tx ]_vars

\* C2 witness: a write_quic call has just re-sent a wholly refused aggregate and
\* had it fully accepted.
C2_Witness ==
  /\ Len(client.log) >= 2
  /\ client.log[1].op = "write_quic"
  /\ client.log[2].op = "write_udp"
  /\ client.log[2].accepted = QUIC_TX_DATALEN
  /\ ~client.quic.tx.send_blocked

\* C3: when send_blocked_packet retries the blocked descriptor and the OS accepts
\* only a prefix, the descriptor's data becomes exactly the unsent residual,
\* send_blocked stays true, writability is re-signalled and the call returns 0;
\* while the Client lives, send_blocked is cleared only by a retry that leaves
\* no residual.
C3_PartialRetry ==
  [][ /\ ( /\ IsWriteQuicStep
           /\ client.quic.tx.send_blocked
           /\ Len(client'.log) >= 2
           /\ client'.log[2].op = "write_udp"
           /\ client'.log[2].accepted < Len(BlockedData(client)) )
         => LET k == client'.log[2].accepted
            IN  /\ client'.quic.tx.send_blocked
                /\ BlockedData(client') =
                     SubSeq(BlockedData(client), k + 1, Len(BlockedData(client)))
                /\ client'.quic.tx.blocked.remote_addr =
                     client.quic.tx.blocked.remote_addr
                /\ client'.quic.tx.blocked.gso_size =
                     client.quic.tx.blocked.gso_size
                /\ client'.wev
                /\ client'.rv = 0
      /\ (client'.alive /\ client.quic.tx.send_blocked
                         /\ ~client'.quic.tx.send_blocked)
         => /\ IsWriteQuicStep
            /\ Len(client'.log) >= 2
            /\ client'.log[2].op = "write_udp"
            /\ client'.log[2].data = BlockedData(client)
            /\ client'.log[2].accepted = Len(BlockedData(client)) ]_vars

\* C3 witness: a retry of a two-byte descriptor was accepted for one byte only.
C3_Witness ==
  /\ Len(client.log) = 3
  /\ client.log[1].op = "write_quic"
  /\ client.log[2].op = "write_udp"
  /\ Len(client.log[2].data) = 2
  /\ client.log[2].accepted = 1
  /\ client.quic.tx.send_blocked
  /\ client.quic.tx.blocked.len = 1

\* The sends of a freshly written aggregate in a handler's trace: the write_udp
\* calls made after ngtcp2_conn_write_aggregate_pkt.
FreshSends(log) ==
  { i \in 1..Len(log) :
      /\ log[i].op = "write_udp"
      /\ \E j \in 1..(i - 1) : log[j].op = "ngtcp2_conn_write_aggregate_pkt" }
\* The OS accepted a non-empty strict prefix of what send e handed to it.
PartlyAccepted(e) == 0 < e.accepted /\ e.accepted < Len(e.data)

\* C35: when the first send of a freshly written aggregate is only partly
\* accepted by the OS, the blocked descriptor recorded by write_udp_or_blocked
\* holds exactly the unaccepted residual, so that no byte already handed to the
\* OS is handed to it again.
C35_Original ==
  [][ IsWriteQuicStep =>
        \A i \in FreshSends(client'.log) :
          PartlyAccepted(client'.log[i]) =>
            /\ client'.quic.tx.send_blocked
            /\ BlockedData(client') =
                 SubSeq(client'.log[i].data, client'.log[i].accepted + 1,
                        Len(client'.log[i].data)) ]_vars
\* A two-byte aggregate of which the OS accepted one byte was blocked whole, and
\* the retry handed its first byte to the OS a second time.
C35_Witness ==
  /\ Len(client.log) >= 2
  /\ client.log[1].op = "write_quic"
  /\ client.log[2].op = "write_udp"
  /\ Len(client.log[2].data) = 2
  /\ client.log[2].accepted >= 1
  /\ \E m, n \in 1..Len(client.fd_out) :
       /\ m < n
       /\ client.fd_out[m].byte = client.log[2].data[1]
       /\ client.fd_out[n].byte = client.log[2].data[1]

\* The handler asked the state machine for a new aggregate, which writes the
\* tx buffer.
AsksAggregate(log) == HasOp(log, "ngtcp2_conn_write_aggregate_pkt")

\* C36: while send_blocked is true the tx buffer the blocked descriptor points
\* into is not written: a handler that starts with send_blocked true asks the
\* state machine for a new aggregate only in write_quic, without close
\* requested, after the retry of the blocked bytes was accepted whole (which
\* clears send_blocked); write_quic returns -1 without sending when
\* close_requested is set and returns 0 right after a retry that leaves a
\* residual; the bytes a retry sends are the bytes of the descriptor in the
\* unchanged buffer.
C36_BufferKeptWhileBlocked ==
  [][ (client.quic.tx.send_blocked /\ client'.alive) =>
        /\ (IsWriteQuicStep /\ client.quic.close_requested)
             => /\ client'.rv = -1
                /\ ~HasOp(client'.log, "write_udp")
                /\ ~AsksAggregate(client'.log)
        /\ (IsWriteQuicStep /\ ~client.quic.close_requested)
             => /\ Len(client'.log) >= 2
                /\ client'.log[2].op = "write_udp"
                /\ client'.log[2].data = BlockedData(client)
                /\ client'.log[2].accepted < Len(BlockedData(client))
                     => /\ client'.rv = 0
                        /\ client'.quic.tx.send_blocked
                        /\ ~AsksAggregate(client'.log)
        /\ AsksAggregate(client'.log)
             => /\ IsWriteQuicStep
                /\ ~client.quic.close_requested
                /\ client'.log[2].accepted = Len(BlockedData(client))
                /\ client'.log[3].op = "ngtcp2_conn_write_aggregate_pkt"
        /\ ~AsksAggregate(client'.log)
             => client'.quic.tx.data = client.quic.tx.data ]_vars
\* A write_quic call retried a blocked aggregate, the OS refused it again, and
\* the call returned 0 with the buffer and the descriptor as they were.
C36_Witness ==
  /\ Len(client.log) = 3
  /\ client.log[1].op = "write_quic"
  /\ client.log[2].op = "write_udp"
  /\ client.log[2].accepted = 0
  /\ client.log[2].data = BlockedData(client)
  /\ client.quic.tx.send_blocked
  /\ client.rv = 0

\* The receive-key install events at the 1-RTT level, by index.
OneRttEvents ==
  { i \in 1..Len(conn.rx_keys) :
      conn.rx_keys[i].level = NGTCP2_ENCRYPTION_LEVEL_1RTT }
OneRttInstalled == { i \in OneRttEvents : conn.rx_keys[i].init_conn_rv = 0 }
SetMin(S) == CHOOSE x \in S : \A y \in S : x <= y
SetMax(S) == CHOOSE x \in S : \A y \in S : x >= y

\* C4 as stated: the HTTP/3 session is constructed exactly once, at the first
\* 1-RTT event, and a later 1-RTT event neither constructs nor replaces it.
C4_Original ==
  /\ client.h3_made <= 1
  /\ OneRttInstalled # {} => client.session = SetMin(OneRttInstalled)

\* C4 (amended): recv_rx_key constructs an HTTP/3 session at every 1-RTT event
\* it is delivered, and a session whose init_conn succeeds replaces the session
\* held; so the session is constructed exactly once only when exactly one
\* 1-RTT event is delivered.  Events at other levels return success and leave
\* the session unchanged.
C4_SessionPerOneRtt ==
  /\ client.h3_made = Cardinality(OneRttEvents)
  /\ client.session = IF OneRttInstalled = {} THEN 0 ELSE SetMax(OneRttInstalled)
  /\ ( /\ conn.rx_keys # <<>>
       /\ conn.rx_keys[Len(conn.rx_keys)].level # NGTCP2_ENCRYPTION_LEVEL_1RTT )
     => client.rv = 0

\* C4 witness: INITIAL, HANDSHAKE, 1-RTT and a further 1-RTT event were delivered.
C4_Witness ==
  /\ Len(conn.rx_keys) = 4
  /\ conn.rx_keys[1].level = NGTCP2_ENCRYPTION_LEVEL_INITIAL
  /\ conn.rx_keys[2].level = NGTCP2_ENCRYPTION_LEVEL_HANDSHAKE
  /\ conn.rx_keys[3].level = NGTCP2_ENCRYPTION_LEVEL_1RTT
  /\ conn.rx_keys[4].level = NGTCP2_ENCRYPTION_LEVEL_1RTT
  /\ client.session = 4

\* ---------------------------------------------------------------------
\* The packet timer
\* ---------------------------------------------------------------------

Max(a, b) == IF a > b THEN a ELSE b

OpIndexes(log, op) == {i \in 1..Len(log) : log[i].op = op}

\* The write_quic call that just ran got a result without error from the
\* state machine's aggregate write.
Aggregated(log) ==
  \E i \in OpIndexes(log, "ngtcp2_conn_write_aggregate_pkt") : log[i].nwrite >= 0

\* C18 as stated: while the Client lives the packet timer is armed exactly
\* when the state machine reports a finite expiry.
C18_Original ==
  client.alive =>
    (client.quic.pkt_timer.active <=> conn.expiry # TSTAMP_MAX)

\* C18 (amended): every write_quic call whose aggregate write does not fail
\* arms the packet timer, whether the state machine reports a finite expiry
\* or none; no other step of a live Client arms or disarms it, so the timer
\* is unarmed only before the first such call.
C18_ArmedByWrite ==
  [][ client'.alive =>
        IF IsWriteQuicStep /\ Aggregated(client'.log)
          THEN client'.quic.pkt_timer.active
          ELSE client'.quic.pkt_timer = client.quic.pkt_timer ]_vars

\* C18 witness: write_quic has armed the timer although the state machine
\* reports no expiry.
C18_Witness ==
  /\ client.alive
  /\ client.log # <<>>
  /\ client.log[1].op = "write_quic"
  /\ HasOp(client.log, "quic_restart_pkt_timer")
  /\ conn.expiry = TSTAMP_MAX
  /\ client.quic.pkt_timer.active
  /\ client.quic.pkt_timer.repeat = TSTAMP_MAX - now

\* C19 as stated: a write_quic call that has sent or retried a datagram has
\* re-armed the packet timer with max(expiry - now, 1).
C19_Original ==
  ( /\ client.log # <<>>
    /\ client.log[1].op = "write_quic"
    /\ HasOp(client.log, "write_udp") )
  => /\ HasOp(client.log, "quic_restart_pkt_timer")
     /\ client.quic.pkt_timer.active
     /\ client.quic.pkt_timer.repeat = Max(conn.expiry - now, 1)

\* C19 (amended): every write_quic call whose aggregate write does not fail
\* re-arms the packet timer once, after the aggregate write and before the
\* datagram is sent, with delay max(expiry - now, 1): never zero or
\* negative, and 1 for an expiry at or before now.  A call that stops after
\* retrying the blocked datagram, that fails in the aggregate write or that
\* finds close requested leaves the timer as it was.
C19_RearmAfterAggregate ==
  [][ IsWriteQuicStep =>
        IF Aggregated(client'.log)
          THEN /\ Cardinality(OpIndexes(client'.log, "quic_restart_pkt_timer")) = 1
               /\ \A i \in OpIndexes(client'.log, "quic_restart_pkt_timer") :
                    /\ client'.log[i - 1].op = "ngtcp2_conn_write_aggregate_pkt"
                    /\ \A j \in OpIndexes(client'.log, "write_udp") :
                         j > i \/ (j = 2 /\ client.quic.tx.send_blocked)
               /\ client'.quic.pkt_timer.active
               /\ client'.quic.pkt_timer.repeat = Max(conn'.expiry - now, 1)
               /\ client'.quic.pkt_timer.repeat >= 1
               /\ (conn'.expiry <= now) => client'.quic.pkt_timer.repeat = 1
          ELSE /\ ~HasOp(client'.log, "quic_restart_pkt_timer")
               /\ client'.quic.pkt_timer = client.quic.pkt_timer ]_vars

\* C19 witness: one write_quic call re-sent the blocked datagram, wrote and
\* sent a new aggregate, and armed the timer with the floor delay because
\* the expiry was not after now.
C19_Witness ==
  /\ client.log # <<>>
  /\ client.log[1].op = "write_quic"
  /\ Cardinality(OpIndexes(client.log, "write_udp")) = 2
  /\ HasOp(client.log, "quic_restart_pkt_timer")
  /\ conn.expiry <= now
  /\ now > 0
  /\ client.quic.pkt_timer.repeat = 1

IsTimerStep ==
  client'.log # <<>> /\ client'.log[1].op = "quic_pkt_timeout_cb"

\* C20: when the packet timer fires, the state machine's expiry handling is
\* called with the current time; on success writability is signalled and
\* the Client stays alive in its worker; on failure the library error is
\* what the connection is closed with, by one connection-close write and at
\* most one datagram that is not retried, after which the Client is removed
\* from its worker and destroyed, the destruction being the handler's last
\* act; and nothing acts on a destroyed Client.
C20_TimerFire ==
  [][ /\ IsTimerStep =>
           LET log == client'.log
           IN  /\ Len(log) >= 2
               /\ log[2].op = "ngtcp2_conn_handle_expiry"
               /\ log[2].ts = now
               /\ IF log[2].rv = 0
                    THEN /\ client'.alive
                         /\ client'.in_worker
                         /\ client'.wev
                         /\ HasOp(log, "signal_write")
                         /\ ~HasOp(log, "ngtcp2_conn_write_connection_close")
                         /\ ~HasOp(log, "write_udp")
                         /\ client'.quic.last_error = client.quic.last_error
                    ELSE /\ ~client'.alive
                         /\ ~client'.in_worker
                         /\ ~HasOp(log, "signal_write")
                         /\ Cardinality(OpIndexes(log,
                              "ngtcp2_conn_write_connection_close")) = 1
                         /\ \A i \in OpIndexes(log,
                                "ngtcp2_conn_write_connection_close") :
                              /\ log[i].ccerr = log[2].rv
                              /\ Cardinality(OpIndexes(log, "write_udp")) =
                                   (IF log[i].nwrite > 0 THEN 1 ELSE 0)
                         /\ ~HasOp(log, "on_send_blocked")
                         /\ log[Len(log)].op = "delete"
                         /\ log[Len(log) - 1].op = "free_client"
      /\ ~client.alive => client' \in {client, [client EXCEPT !.log = <<>>]}
    ]_vars

\* C20 witness: the expiry handling failed, the connection-close datagram
\* was refused by the OS, and the Client is destroyed all the same.
C20_Witness ==
  /\ ~client.alive
  /\ ~client.in_worker
  /\ \E i \in OpIndexes(client.log, "write_udp") : client.log[i].accepted = 0
  /\ client.log[Len(client.log)].op = "delete"


\* ---------------------------------------------------------------------
\* The receive path
\* ---------------------------------------------------------------------

\* Datagrams of the blob read_quic is feeding, GRO segments counted singly.
BlobDatagrams(r) ==
  IF r.gso_size = 0 THEN 1 ELSE (r.recv_rv + r.gso_size - 1) \div r.gso_size

\* C21 as stated: one read_quic call feeds at most 100 datagrams to the
\* state machine.
C21_Original == rq.pktcnt <= READ_QUIC_PKT_LIMIT

\* C21 (amended): read_quic calls recvmsg only while it has fed fewer than
\* 100 datagrams, and feeds every blob it received whole; so one call feeds
\* at most 99 datagrams plus the GRO segments of the last blob, and stops
\* receiving once 100 or more are fed.
C21_ReceiveLimit ==
  /\ (rq.pc = "recvmsg") => (rq.pktcnt < READ_QUIC_PKT_LIMIT)
  /\ rq.blob_start < READ_QUIC_PKT_LIMIT
  /\ (rq.pc # "idle" /\ rq.recv_rv >= 0) =>
       rq.pktcnt <= rq.blob_start + BlobDatagrams(rq)
  /\ (rq.pc = "returned" /\ rq.rv = 0 /\ rq.recv_rv >= 0) =>
       /\ rq.pktcnt >= READ_QUIC_PKT_LIMIT
       /\ rq.pktcnt = rq.blob_start + BlobDatagrams(rq)

\* C21 witness: the call returned after a blob of three GRO segments that
\* it began to feed with 99 datagrams already fed.
C21_Witness ==
  /\ rq.pc = "returned"
  /\ rq.rv = 0
  /\ rq.blob_start = READ_QUIC_PKT_LIMIT - 1
  /\ rq.pktcnt = READ_QUIC_PKT_LIMIT + 2

ReadPktFailed == rq.pc = "read_pkt" /\ rq'.pc = "returned" /\ rq'.rv = -1

\* C22 as stated: after a failed feed quic.last_error is the TLS alert for a
\* CRYPTO failure and the library error for any other failure.
C22_Original ==
  (rq.pc = "returned" /\ rq.rv = -1) =>
    rq.last_error = IF rq.pkt_rv = NGTCP2_ERR_CRYPTO
                      THEN ccerr_set_tls_alert(rq.tls_alert)
                      ELSE ccerr_set_liberr(rq.pkt_rv)

\* C22 (amended): when a feed fails, read_quic returns -1 at once, feeding
\* nothing further; quic.last_error, if it holds no error code at that
\* point, becomes the TLS alert for a CRYPTO failure and the library error
\* for any other failure, and is left as it is if a callback has already
\* recorded an error.  When recvmsg returns -1, read_quic returns 0 and
\* quic.last_error is unchanged.
C22_FeedFailure ==
  [][ /\ (rq.pc = "read_pkt" /\ rq'.pkt_rv # 0) =>
           /\ rq'.pc = "returned"
           /\ rq'.rv = -1
           /\ rq'.pktcnt = rq.pktcnt + 1
           /\ rq'.nread = rq.nread
           /\ rq'.last_error =
                IF rq'.cb_error \/ rq.last_error.error_code # 0
                  THEN (IF rq'.cb_error THEN ccerr_application_error
                                        ELSE rq.last_error)
                  ELSE IF rq'.pkt_rv = NGTCP2_ERR_CRYPTO
                    THEN ccerr_set_tls_alert(rq'.tls_alert)
                    ELSE ccerr_set_liberr(rq'.pkt_rv)
      /\ (rq.pc = "read_pkt" /\ rq'.pkt_rv = 0) =>
           /\ rq'.last_error = rq.last_error
           /\ rq'.pc # "returned" \/ rq'.rv = 0
      /\ (rq.pc = "recvmsg" /\ rq'.recv_rv = -1) =>
           /\ rq'.pc = "returned"
           /\ rq'.rv = 0
           /\ rq'.last_error = rq.last_error
           /\ rq'.pktcnt = rq.pktcnt
      /\ (rq.pc = "returned") => (rq' = rq) ]_vars

\* C22 witness: the second segment of a blob of three failed with a CRYPTO
\* error; the call returned -1 with the TLS alert recorded and the third
\* segment unfed.
C22_Witness ==
  /\ rq.pc = "returned"
  /\ rq.rv = -1
  /\ rq.pkt_rv = NGTCP2_ERR_CRYPTO
  /\ rq.last_error = ccerr_set_tls_alert(rq.tls_alert)
  /\ rq.recv_rv = 3
  /\ rq.gso_size = 1
  /\ rq.pktcnt = rq.blob_start + 2


\* ---------------------------------------------------------------------
\* Closing the connection
\* ---------------------------------------------------------------------

SendsOf(c) == {i \in 1..Len(c.log) : c.log[i].op = "write_udp"}

ClosePackets(c) == {i \in 1..Len(c.log) : c.log[i].op = "ngtcp2_conn_write_connection_close" /\ c.log[i].nwrite > 0}

\* C23: quic_close_connection sends nothing when there is no QUIC connection
\* or no CONNECTION_CLOSE packet was produced, and otherwise hands the packet
\* to the socket exactly once; whatever the OS accepts, no blocked send is
\* registered: send_blocked, the blocked descriptor and the write watcher
\* stay as they were, and the socket got at most that one packet.
C23_CloseBestEffort ==
  (closing.pc = "closed") =>
    /\ Cardinality(SendsOf(closing.c)) =
         (IF closing.before.quic.conn /\ ClosePackets(closing.c) # {} THEN 1 ELSE 0)
    /\ closing.c.quic.tx = closing.before.quic.tx
    /\ closing.c.wev = closing.before.wev
    /\ closing.c.assert_failed = closing.before.assert_failed
    /\ \A i \in 1..Len(closing.c.log) : closing.c.log[i].op # "on_send_blocked"
    /\ \A i \in SendsOf(closing.c) :
         Len(closing.c.fd_out) = Len(closing.before.fd_out) + closing.c.log[i].accepted
    /\ (SendsOf(closing.c) = {}) => (closing.c.fd_out = closing.before.fd_out)

\* C23 witness: a CONNECTION_CLOSE packet was produced while an earlier send
\* was still blocked, and the OS accepted none of it.
C23_Witness ==
  /\ closing.pc = "closed"
  /\ closing.before.quic.tx.send_blocked
  /\ \E i \in SendsOf(closing.c) : closing.c.log[i].accepted = 0

\* ---------------------------------------------------------------------
\* Connection IDs
\* ---------------------------------------------------------------------

\* C24 as stated: every Connection ID the engine has produced is 8 bytes
\* long and every stateless-reset token 16 bytes, whatever length the state
\* machine requested.
C24_Original ==
  /\ (cidgen.pc = "ready") =>
       (cidgen.scid.nrand = GENERATE_CID_LEN
          /\ cidgen.dcid.nrand = GENERATE_CID_LEN)
  /\ \A i \in 1..Len(cidgen.cids) :
       /\ cidgen.cids[i].cid.datalen = GENERATE_CID_LEN
       /\ cidgen.cids[i].token = NGTCP2_STATELESS_RESET_TOKENLEN

\* C24 (amended): the source and destination Connection IDs made at init are
\* 8 random bytes each; a Connection ID supplied on demand has the length
\* the state machine requested, all of it random, and comes with a random
\* stateless-reset token of 16 bytes; when the random source fails the
\* operation reports failure, and that is the only way it fails; a failed
\* init leaves no destination Connection ID.
C24_CidLengths ==
  /\ (cidgen.pc = "ready") =>
       /\ cidgen.scid = [datalen |-> GENERATE_CID_LEN,
                         nrand |-> GENERATE_CID_LEN]
       /\ cidgen.dcid = cidgen.scid
  /\ \A i \in 1..Len(cidgen.cids) :
       /\ cidgen.cids[i].cid.datalen = cidgen.cids[i].requested
       /\ cidgen.cids[i].cid.nrand = cidgen.cids[i].requested
       /\ cidgen.cids[i].token = NGTCP2_STATELESS_RESET_TOKENLEN
  /\ (cidgen.pc = "failed") <=> (cidgen.rv # 0)
  /\ (cidgen.pc = "failed" /\ cidgen.requested = 0) => (cidgen.dcid = NoCid)

\* C24 witness: after init the state machine asked for a Connection ID of
\* 20 bytes and for one of 8 bytes, and got both.
C24_Witness ==
  /\ cidgen.pc = "ready"
  /\ Len(cidgen.cids) = 2
  /\ cidgen.cids[1].cid.datalen = MaxCidLen
  /\ cidgen.cids[2].cid.datalen = GENERATE_CID_LEN


\* ---------------------------------------------------------------------
\* TLS host names
\* ---------------------------------------------------------------------

Called(pattern, hostname) == hm.called /\ hm.pattern = pattern /\ hm.hostname = hostname

\* What a successful wildcard match says about its arguments: the host name
\* is the pattern with the '*' replaced by one or more characters none of
\* which is a dot, letter case ignored.
WildcardExpansion(pattern, hostname) ==
  LET star == find(pattern, 1, "*")
      n == Len(hostname) - Len(pattern) + 1
  IN  /\ n >= 1
      /\ \A i \in star..(star + n - 1) : hostname[i] # "."
      /\ strieq(SubSeq(pattern, 1, star - 1), SubSeq(hostname, 1, star - 1))
      /\ strieq(SubSeq(pattern, star + 1, Len(pattern)), SubSeq(hostname, star + n, Len(hostname)))

\* The general rule of C27: a match is either equality without regard to
\* letter case, or a wildcard in the leftmost label, followed by at least two
\* dots, that stands for one or more characters of one label.
C27_Rule ==
  hm.called =>
    (hm.result <=>
       \/ strieq(hm.pattern, hm.hostname)
       \/ /\ find(hm.pattern, 1, "*") < find(hm.pattern, 1, ".")
          /\ Cardinality({i \in 1..Len(hm.pattern) : hm.pattern[i] = "." /\ i > find(hm.pattern, 1, "*")}) >= 2
          /\ WildcardExpansion(hm.pattern, hm.hostname))

\* C27 as stated: the rule, the matches of the test, and '*.com', '*',
\* 'blog.*.example.com' and 'client*.example.com' matching no host name.
C27_Original ==
  /\ C27_Rule
  /\ Called(star_example_com, www_example_com) => hm.result
  /\ Called(star_w_example_com, www_example_com) => hm.result
  /\ Called(www_star_example_com, WWW12_EXAMPLE_com) => hm.result
  /\ Called(www_star_example_com, www_example_com) => ~hm.result
  /\ (hm.called /\ hm.pattern \in {star_com, star_alone, blog_star_example_com, client_star_example_com}) => ~hm.result

\* C27 (amended): tls_hostname_match compares without regard to letter case,
\* honours a wildcard only in the leftmost label and only when at least two
\* dots follow it, and lets it stand for one or more characters:
\* '*.example.com' and '*w.example.com' match 'www.example.com',
\* 'www*.example.com' matches 'WWW12.EXAMPLE.com' but not 'www.example.com';
\* '*.com', '*' and 'blog.*.example.com' match no host name;
\* 'client*.example.com' does not match 'server.example.com', and matches
\* exactly the host names 'client' + one or more characters + '.example.com'.
C27_HostnameMatch ==
  /\ C27_Rule
  /\ Called(star_example_com, www_example_com) => hm.result
  /\ Called(star_w_example_com, www_example_com) => hm.result
  /\ Called(www_star_example_com, WWW12_EXAMPLE_com) => hm.result
  /\ Called(www_star_example_com, www_example_com) => ~hm.result
  /\ (hm.called /\ hm.pattern \in {star_com, star_alone, blog_star_example_com}) => ~hm.result
  /\ Called(client_star_example_com, server_example_com) => ~hm.result
  /\ (hm.called /\ hm.pattern = client_star_example_com) => (hm.result <=> WildcardExpansion(hm.pattern, hm.hostname))

\* C27 witness: 'www*.example.com' was matched against 'WWW12.EXAMPLE.com'
\* and the result is a match.
C27_Witness ==
  /\ Called(www_star_example_com, WWW12_EXAMPLE_com)
  /\ hm.result

\* ---------------------------------------------------------------------
\* The certificate lookup tree
\* ---------------------------------------------------------------------

HasLeaf(pattern) == \E i \in 1..Len(certs.tree) : certs.tree[i].pattern = pattern

Looked(hostname) == certs.last.result # -2 /\ certs.last.hostname = hostname

\* The leaves whose pattern stands for the host name: equal to it, or equal
\* to it once the '*' is replaced by one or more characters other than a dot.
StandsFor(hostname) ==
  {i \in 1..Len(certs.tree) :
     \/ strieq(certs.tree[i].pattern, hostname)
     \/ /\ find(certs.tree[i].pattern, 1, "*") <= Len(certs.tree[i].pattern)
        /\ WildcardExpansion(certs.tree[i].pattern, hostname)}

\* C25: in CertLookupTree lookup a '*' stands for one or more characters of
\* one label, never for nothing and never for a dot, and a host name that is
\* only a proper suffix of a stored name reaches nothing: with
\* '*yy.host.domain' and 'xy*.host.domain' stored, 'xyy.host.domain' and
\* 'xy1.host.domain' are found and 'yy.host.domain' gives -1; with
\* '*www.example.org' stored '2www.example.org' is found and
\* 'www2.example.org' gives -1; 'oo.bar' and '*.foo.bar' resolve to their own
\* indices; the empty host name gives -1.
C25_WildcardLookup ==
  (certs.last.result # -2) =>
    /\ (certs.last.result # -1) =>
         \E i \in StandsFor(certs.last.hostname) : certs.tree[i].idx = certs.last.result
    /\ (certs.last.result = -1) =>
         (certs.last.hostname = << >> \/ StandsFor(certs.last.hostname) = {})
    /\ (HasLeaf(star_yy_host_domain) /\ HasLeaf(xy_star_host_domain)) =>
         /\ Looked(xyy_host_domain) => certs.last.result = 4
         /\ Looked(xy1_host_domain) => certs.last.result = 3
    /\ Looked(yy_host_domain) => certs.last.result = -1
    /\ (HasLeaf(star_www_example_org) /\ Looked(two_www_example_org)) => certs.last.result = 2
    /\ Looked(www2_example_org) => certs.last.result = -1
    /\ (HasLeaf(oo_bar) /\ Looked(oo_bar)) => certs.last.result = 9
    /\ (HasLeaf(star_foo_bar) /\ Looked(x_foo_bar)) => certs.last.result = 8
    /\ (~HasLeaf(oo_bar) /\ Looked(oo_bar)) => certs.last.result = -1
    /\ Looked(a_b_foo_bar) => certs.last.result = -1
    /\ Looked(host_domain) => certs.last.result = -1
    /\ Looked(dot_sourceforge_net) => certs.last.result = -1
    /\ Looked(pdylay_sourceforge_net) => certs.last.result = -1
    /\ Looked(<< >>) => certs.last.result = -1

\* C25 witness: '*yy.host.domain' and 'xy*.host.domain' are stored and
\* 'yy.host.domain' was looked up, giving -1.
C25_Witness ==
  /\ HasLeaf(star_yy_host_domain)
  /\ HasLeaf(xy_star_host_domain)
  /\ Looked(yy_host_domain)
  /\ certs.last.result = -1

RECURSIVE BuildTree(_)
\* The tree a sequence of add_cert(hostnames[idx], idx) calls makes.
BuildTree(log) ==
  IF log = << >>
    THEN << >>
    ELSE add_cert(BuildTree(SubSeq(log, 1, Len(log) - 1)), CertHostnames[log[Len(log)] + 1], log[Len(log)]).tree

\* The same calls in every order.
Orders(log) ==
  {[i \in 1..Len(log) |-> log[f[i]]] : f \in {g \in [1..Len(log) -> 1..Len(log)] : \A a, b \in 1..Len(log) : g[a] = g[b] => a = b}}

DistinctPatterns(log) ==
  \A i, j \in 1..Len(log) : (i # j) => ~strieq(CertHostnames[log[i] + 1], CertHostnames[log[j] + 1])

\* The first call of the log that added the pattern of call k.
FirstAdd(log, k) ==
  CHOOSE i \in 1..k : /\ strieq(CertHostnames[log[i] + 1], CertHostnames[log[k] + 1])
                      /\ \A j \in 1..(i - 1) : ~strieq(CertHostnames[log[j] + 1], CertHostnames[log[k] + 1])

DtorRsts == {k \in 1..Len(dtor.h.log) : dtor.h.log[k].op = "submit_rst_stream"}

\* C28: when a connection is destroyed with a Downstream attached, the
\* RST_STREAM it issues carries NO_ERROR exactly when the Downstream is
\* upgraded and its request state is STREAM_CLOSED, and INTERNAL_ERROR
\* otherwise; a RST_STREAM is issued only if the session is CONNECTED and the
\* Downstream's stream was opened, and never more than one.
C28_DestructorErrorCode ==
  dtor.called =>
    /\ \A k \in DtorRsts :
         /\ dtor.h.log[k].error_code \in {NGHTTP2_NO_ERROR, NGHTTP2_INTERNAL_ERROR}
         /\ (dtor.h.log[k].error_code = NGHTTP2_NO_ERROR) <=>
              (dtor.before.downstreams[1].upgraded
                 /\ dtor.before.downstreams[1].request_state = STREAM_CLOSED)
         /\ dtor.h.log[k].stream_id = dtor.before.downstreams[1].stream_id
    /\ (DtorRsts # {}) =>
         /\ dtor.before.dconns[1].downstream_ = 1
         /\ dtor.before.session.state = CONNECTED
         /\ dtor.before.downstreams[1].stream_id # -1
    /\ Cardinality(DtorRsts) <= 1

\* C28 witness: a connection whose upgraded Downstream had reached
\* STREAM_CLOSED was destroyed and the stream was reset with NO_ERROR.
C28_Witness ==
  /\ dtor.called
  /\ dtor.before.downstreams[1].upgraded
  /\ \E k \in DtorRsts : dtor.h.log[k].error_code = NGHTTP2_NO_ERROR

\* ---------------------------------------------------------------------
\* One Downstream, one connection
\* ---------------------------------------------------------------------

\* No two connections refer to the same Downstream.
OneToOne(h) ==
  \A i, j \in DConns :
    (i # j /\ h.dconns[i].downstream_ # 0) => (h.dconns[i].downstream_ # h.dconns[j].downstream_)

AttachStep(i) == att'.h.log # << >> /\ att'.h.log[1] = [op |-> "attach_downstream", dconn |-> i]

DetachStep(i) == att'.h.log # << >> /\ att'.h.log[1] = [op |-> "detach_downstream", dconn |-> i]

OthersKept(i) == \A j \in DConns \ {i} : att'.h.dconns[j].downstream_ = att.h.dconns[j].downstream_

C37_Original ==
  /\ [](\A i \in DConns :
          /\ LinkCount(att.h, i) <= 1
          /\ Linked(att.h, i) <=> att.h.dconns[i].life \in {"attached", "detached"})
  /\ [][\A i \in DConns : AttachStep(i) => ~Linked(att.h, i)]_vars
\* A connection was attached, detached and attached again: it is in the
\* session's list twice.
C37_Witness ==
  /\ att.h.log # << >>
  /\ att.h.log[1].op = "attach_downstream"
  /\ LinkCount(att.h, att.h.log[1].dconn) = 2
  /\ att.h.dconns[att.h.log[1].dconn].life = "attached"


\* ---------------------------------------------------------------------
\* Binding StreamData
\* ---------------------------------------------------------------------

\* dconn.sd_ == sd if and only if sd.dconn == dconn, for every connection and
\* every StreamData
MutualBinding(h) ==
  \A i \in DConns, sd \in SdStreams :
    (h.dconns[i].sd_ = sd) <=> (h.streams[StreamIdx(sd)].dconn = i)

\* C38: after any sequence of attach_stream_data and detach_stream_data calls
\* on any connections, dconn.sd_ == sd if and only if sd.dconn == dconn;
\* attaching a StreamData first unbinds the connection's previous one, and
\* detach_stream_data on an unbound connection returns null and changes
\* nothing.
C38_Original ==
  /\ [] MutualBinding(sdb.h)
  /\ [][ /\ (sdb'.last.op = "attach_stream_data" /\ sdb' # sdb)
              => /\ sdb'.h.dconns[sdb'.last.dconn].sd_ = sdb'.last.sd
                 /\ sdb.h.dconns[sdb'.last.dconn].sd_ \notin {0, sdb'.last.sd}
                      => sdb'.h.streams[StreamIdx(sdb.h.dconns[sdb'.last.dconn].sd_)].dconn = 0
         /\ (sdb'.last.op = "detach_stream_data" /\ sdb.h.dconns[sdb'.last.dconn].sd_ = 0)
              => /\ sdb'.last.rv = 0
                 /\ sdb'.h = sdb.h ]_vars
\* Stream 1's StreamData, bound to connection 1, was attached to connection 2:
\* connection 1 still points at it while it points at connection 2.
C38_Witness ==
  /\ sdb.last = [op |-> "attach_stream_data", dconn |-> 2, sd |-> 1, rv |-> 0]
  /\ sdb.h.dconns[1].sd_ = 1
  /\ sdb.h.dconns[2].sd_ = 1
  /\ sdb.h.streams[StreamIdx(1)].dconn = 2

\* ---------------------------------------------------------------------
\* The request body
\* ---------------------------------------------------------------------

UploadStep(op) == upl' # upl /\ upl'.log # << >> /\ upl'.log[1].op = op
\* a call of push_upload_data_chunk or end_upload_data made once the request
\* headers were sent and the stream was opened
UploadAfterHeaders ==
  /\ upl.header_sent /\ upl.stream_id # -1
  /\ UploadStep("push_upload_data_chunk") \/ UploadStep("end_upload_data")
\* the call resumed the data provider, ensured the write timer and signalled write
Woken ==
  /\ HasOp(upl'.log, "resume_data")
  /\ HasOp(upl'.log, "ensure_downstream_wtimer")
  /\ HasOp(upl'.log, "signal_write")
  /\ ~upl'.deferred /\ upl'.wtimer /\ upl'.write_pending
\* bytes pushed before the headers were sent go to the blocked-request buffer only
BlockedOnly ==
  (~upl.header_sent /\ UploadStep("push_upload_data_chunk"))
    => /\ upl'.blocked_buf = upl.blocked_buf + upl'.log[1].datalen
       /\ upl'.request_buf = upl.request_buf
       /\ upl'.handed = upl.handed
       /\ ~HasOp(upl'.log, "resume_data")
HeadersFirst ==
  /\ upl.handed > 0 => upl.header_sent
  /\ ~upl.header_sent => upl.request_buf = 0

\* C39 as stated: once the request headers were sent and the stream is
\* opened, every push_upload_data_chunk and every end_upload_data resumes
\* the data provider, ensures the write timer and signals write; bytes in the
\* request buffer are read, and the request reaches EOF once it is
\* MSG_COMPLETE; bytes pushed before the headers go to the blocked-request
\* buffer only.
C39_Original ==
  /\ [][UploadAfterHeaders => Woken]_vars
  /\ [][BlockedOnly]_vars
  /\ []HeadersFirst
  /\ (upl.header_sent /\ upl.stream_id # -1 /\ upl.request_buf > 0)
       ~> (upl.request_buf = 0)
  /\ (upl.header_sent /\ upl.stream_id # -1 /\ upl.request_state = MSG_COMPLETE)
       ~> upl.eof
\* C39 (amended): once the request headers were sent and the stream is
\* opened, every push_upload_data_chunk and every end_upload_data calls
\* resume_data and, unless that fails (the call then returns -1 and neither
\* touches the timer nor signals write), ensures the write timer and signals
\* write; unless a resume_data fails, bytes in the request buffer are read
\* and a request that is not an upgrade request reaches EOF once it is
\* MSG_COMPLETE; bytes pushed before the headers go to the blocked-request
\* buffer only and nothing is handed to the session ahead of the headers.
C39_NoLostWakeup ==
  /\ [][UploadAfterHeaders =>
          /\ HasOp(upl'.log, "resume_data")
          /\ upl'.rv \in {0, -1}
          /\ upl'.rv = 0 => Woken
          /\ upl'.rv = -1 =>
               /\ ~HasOp(upl'.log, "ensure_downstream_wtimer")
               /\ ~HasOp(upl'.log, "signal_write")
               /\ upl'.wtimer = upl.wtimer
               /\ upl'.write_pending = upl.write_pending]_vars
  /\ [][BlockedOnly]_vars
  /\ []HeadersFirst
  /\ (upl.header_sent /\ upl.stream_id # -1 /\ upl.request_buf > 0)
       ~> (upl.request_buf = 0 \/ upl.failed)
  /\ (upl.stream_id # -1 /\ upl.request_state = MSG_COMPLETE /\ ~upl.upgrade_request)
       ~> (upl.eof \/ upl.failed)
\* A request body whose data provider was deferred and resumed reached EOF with
\* all its bytes handed to the session.
C39_Witness ==
  /\ upl.eof
  /\ upl.resumed >= 1
  /\ upl.handed = MaxUpload
  /\ ~upl.failed

\* ---------------------------------------------------------------------
\* Filling a packet
\* ---------------------------------------------------------------------

\* A pass of the loop of write_quic_pkt in which the state machine was asked.
WritevStep == wp.pc = "loop" /\ wp' # wp /\ wp'.last.called

StreamsKept(ids) == \A id \in ids : wp'.streams[id] = wp.streams[id]

\* C32: in write_quic_pkt, STREAM_DATA_BLOCKED blocks the offered stream and
\* the loop goes on, STREAM_SHUT_WR shuts its write side and the loop goes on,
\* WRITE_MORE goes on appending; for every chunk the state machine accepts
\* (ndatalen >= 0, on WRITE_MORE or on the final return) the write offset of
\* that stream moves on once, by ndatalen, unless the HTTP/3 library refuses,
\* in which case NGTCP2_ERR_CALLBACK_FAILURE is returned; the offset of a
\* blocked or shut stream and of every other stream stays; any other negative
\* result is recorded in last_error as a library error and
\* NGTCP2_ERR_CALLBACK_FAILURE is returned.
C32_WriteOffsets ==
  [][WritevStep =>
       LET id == wp'.last.stream_id
           nwrite == wp'.last.nwrite
           ndatalen == wp'.last.ndatalen
       IN  /\ StreamsKept(StreamIds \ {id})
           /\ (nwrite = NGTCP2_ERR_STREAM_DATA_BLOCKED) =>
                /\ wp'.pc = "loop"
                /\ wp'.streams[id] = [wp.streams[id] EXCEPT !.blocked = TRUE]
           /\ (nwrite = NGTCP2_ERR_STREAM_SHUT_WR) =>
                /\ wp'.pc = "loop"
                /\ wp'.streams[id] = [wp.streams[id] EXCEPT !.shut = TRUE]
           /\ (ndatalen >= 0 /\ (nwrite = NGTCP2_ERR_WRITE_MORE \/ nwrite >= 0)) =>
                \/ /\ wp'.add_rv = 0
                   /\ wp'.streams[id].offset = wp.streams[id].offset + ndatalen
                   /\ wp'.adds[id] = wp.adds[id] + 1
                   /\ wp'.pc = (IF nwrite = NGTCP2_ERR_WRITE_MORE THEN "loop" ELSE "done")
                   /\ (wp'.pc = "done") => (wp'.rv = nwrite)
                \/ /\ wp'.add_rv # 0
                   /\ StreamsKept({id})
                   /\ wp'.pc = "done"
                   /\ wp'.rv = NGTCP2_ERR_CALLBACK_FAILURE
           /\ (ndatalen < 0 /\ nwrite >= 0) =>
                (wp'.pc = "done" /\ wp'.rv = nwrite /\ StreamsKept(StreamIds))
           /\ (nwrite < 0 /\ nwrite \notin {NGTCP2_ERR_STREAM_DATA_BLOCKED, NGTCP2_ERR_STREAM_SHUT_WR, NGTCP2_ERR_WRITE_MORE}) =>
                /\ wp'.pc = "done"
                /\ wp'.rv = NGTCP2_ERR_CALLBACK_FAILURE
                /\ wp'.last_error = ccerr_set_liberr(nwrite)
                /\ StreamsKept(StreamIds)
           /\ (wp'.last_error # wp.last_error) => (nwrite = NGTCP2_ERR_NOMEM)]_vars

\* C32 witness: write_quic_pkt returned a packet after the state machine had
\* accepted a chunk of stream 0 with WRITE_MORE and a chunk of stream 4 on the
\* final return, one stream's offset moved by each.
C32_Witness ==
  /\ wp.pc = "done"
  /\ wp.rv > 0
  /\ wp.chunks[0] = 1 /\ wp.chunks[4] = 1
  /\ wp.adds[0] = 1 /\ wp.adds[4] = 1
  /\ wp.streams[0].offset = wp.accepted[0] /\ wp.accepted[0] > 0
  /\ wp.streams[4].offset = wp.accepted[4]
  /\ wp.last.stream_id = 4

\* C40: the loop of write_quic_pkt ends: a pass that finds a stream blocked
\* or shut takes that stream off those the session offers, a pass that is
\* asked for more has used room in the packet, so the callback returns a
\* packet length or an error; and a pass made without an HTTP/3 session, or
\* with no connection-level credit left, offers stream id -1 and does not use
\* the session pointer.
C40_LoopTerminates ==
  /\ [](~wp.null_deref)
  /\ [][(wp.pc = "loop" /\ wp' # wp /\ (~wp.session \/ wp.max_data_left = 0)) =>
          /\ wp'.last.called
          /\ wp'.last.stream_id = -1
          /\ wp'.pc = "done"
          /\ StreamsKept(StreamIds)]_vars
  /\ [][(wp.pc = "loop" /\ wp'.pc = "loop" /\ wp' # wp) =>
          \/ \E id \in StreamIds :
               /\ ~wp.streams[id].blocked /\ ~wp.streams[id].shut
               /\ wp'.streams[id].blocked \/ wp'.streams[id].shut
          \/ wp'.destleft < wp.destleft]_vars
  /\ (wp.pc = "loop") ~> (wp.pc = "done")

\* C40 witness: the callback returned a packet after one stream was found
\* blocked and the other shut for writing.
C40_Witness ==
  /\ wp.pc = "done"
  /\ wp.streams[0].blocked
  /\ wp.streams[4].shut
  /\ wp.rv > 0
  /\ ~wp.null_deref

\* ---------------------------------------------------------------------
\* A timer of the Downstream fires
\* ---------------------------------------------------------------------

TimeoutRsts == {k \in 1..Len(tmo.h.log) : tmo.h.log[k].op = "submit_rst_stream"}

\* The guards of any reset: the session is CONNECTED, the Downstream's stream
\* was opened and its response is not over.
ResetGuards(h, d) ==
  /\ h.session.state = CONNECTED
  /\ h.downstreams[d].stream_id # -1
  /\ h.downstreams[d].response_state \notin {MSG_RESET, MSG_BAD_HEADER, MSG_COMPLETE}

\* C33: on_timeout submits RST_STREAM with NO_ERROR for the stream of the
\* attached Downstream exactly when the guards of any reset hold, and returns
\* what the submission returned; nothing but the reset is done; with no
\* Downstream attached it returns 0 and submits nothing.
C33_TimeoutReset ==
  tmo.called =>
    /\ (tmo.before.dconns[1].downstream_ = 0) =>
         (tmo.h.rv = 0 /\ TimeoutRsts = {})
    /\ (tmo.before.dconns[1].downstream_ # 0) =>
         /\ (TimeoutRsts # {}) <=> ResetGuards(tmo.before, 1)
         /\ (TimeoutRsts = {}) => (tmo.h.rv = -1)
    /\ Cardinality(TimeoutRsts) <= 1
    /\ \A k \in TimeoutRsts :
         /\ tmo.h.log[k].error_code = NGHTTP2_NO_ERROR
         /\ tmo.h.log[k].stream_id = tmo.before.downstreams[1].stream_id
    /\ [tmo.h EXCEPT !.log = << >>, !.rv = 0] = [tmo.before EXCEPT !.log = << >>, !.rv = 0]

\* C33 witness: the timer of an upgraded Downstream fired on a CONNECTED
\* session and its stream was reset with NO_ERROR.
C33_Witness ==
  /\ tmo.called
  /\ tmo.before.downstreams[1].upgraded
  /\ tmo.h.rv = 0
  /\ \E k \in TimeoutRsts : tmo.h.log[k].error_code = NGHTTP2_NO_ERROR

(***************************************************************************)
(* Claims about the HTTP/2 downstream connection                           *)
(***************************************************************************)
\* The step just taken ran handler op on downstream connection i.
H2StepOf(op, i) ==
  /\ h2'.log # <<>>
  /\ h2'.log[1].op = op
  /\ h2'.log[1].dconn = i
ConsumeCalls(log, stream_id) ==
  {k \in 1..Len(log) : log[k].op = "consume" /\ log[k].stream_id = stream_id}
RstCalls(log, stream_id) ==
  {k \in 1..Len(log) :
     log[k].op = "submit_rst_stream" /\ log[k].stream_id = stream_id}
TerminalResponse == {MSG_COMPLETE, MSG_RESET, MSG_BAD_HEADER}

C6_DetachConsumesOnce ==
  [][\A i \in DConns :
       /\ (H2StepOf("detach_downstream", i)
             /\ h2.downstreams[DownstreamOf(h2, i)].stream_id # -1) =>
            LET d   == DownstreamOf(h2, i)
                sid == h2.downstreams[d].stream_id
            IN  /\ Cardinality(ConsumeCalls(h2'.log, sid)) = 1
                /\ \A k \in ConsumeCalls(h2'.log, sid) :
                     h2'.log[k].len = h2.downstreams[d].unconsumed_body_length
                /\ h2'.downstreams[d].unconsumed_body_length = 0
                /\ h2'.streams[StreamIdx(sid)].consumed
                     = h2'.streams[StreamIdx(sid)].delivered
                /\ ~HasOp(h2'.log, "remove_downstream_connection")
                /\ Linked(h2', i)
       /\ (H2StepOf("~Http2DownstreamConnection", i)
             /\ h2.dconns[i].life = "detached") =>
            /\ ~HasOp(h2'.log, "consume")
            /\ HasOp(h2'.log, "remove_downstream_connection")
            /\ ~Linked(h2', i)
            /\ h2'.downstreams = h2.downstreams
    ]_vars
\* A detached connection whose Downstream had a residual is destroyed.
C6_Witness ==
  /\ h2.log # <<>>
  /\ h2.log[1].op = "~Http2DownstreamConnection"
  /\ LET d == h2.log[1].dconn
     IN  /\ h2.downstreams[d].stream_id # -1
         /\ h2.downstreams[d].response_datalen > 0
         /\ h2.downstreams[d].unconsumed_body_length = 0
         /\ ~HasOp(h2.log, "consume")

\* C7 as stated: detach_downstream submits RST_STREAM exactly when the stream was
\* opened and the response is not in a terminal state.
C7_Original ==
  [][\A i \in DConns :
       H2StepOf("detach_downstream", i) =>
         LET ds == h2.downstreams[DownstreamOf(h2, i)]
         IN  HasOp(h2'.log, "submit_rst_stream")
               <=> (ds.stream_id # -1 /\ ds.response_state \notin TerminalResponse)
    ]_vars
\* C7: detach_downstream submits RST_STREAM, once and on the Downstream's stream,
\* exactly when the session is CONNECTED, the stream was opened and the response
\* is not in a terminal state.
C7_DetachRstStream ==
  [][\A i \in DConns :
       H2StepOf("detach_downstream", i) =>
         LET ds == h2.downstreams[DownstreamOf(h2, i)]
         IN  /\ HasOp(h2'.log, "submit_rst_stream")
                  <=> (/\ h2.session.state = CONNECTED
                       /\ ds.stream_id # -1
                       /\ ds.response_state \notin TerminalResponse)
             /\ \A k \in 1..Len(h2'.log) :
                  h2'.log[k].op = "submit_rst_stream" =>
                    /\ h2'.log[k].stream_id = ds.stream_id
                    /\ RstCalls(h2'.log, ds.stream_id) = {k}
    ]_vars
\* detach_downstream has submitted RST_STREAM for an opened stream.
C7_Witness ==
  /\ h2.log # <<>>
  /\ h2.log[1].op = "detach_downstream"
  /\ HasOp(h2.log, "submit_rst_stream")

\* C8 as stated: a connection that detach_downstream has returned from is not in
\* the session's list.
C8_Original ==
  \A i \in DConns : h2.dconns[i].life = "detached" => ~Linked(h2, i)
\* C8: a connection that detach_downstream has returned from holds no Downstream
\* and is still in the session's list, once; a destroyed connection is not in the
\* list.
C8_UnlinkedByDestructor ==
  \A i \in DConns :
    /\ h2.dconns[i].life = "detached" =>
         /\ h2.dconns[i].downstream_ = 0
         /\ LinkCount(h2, i) = 1
    /\ h2.dconns[i].life = "deleted" => ~Linked(h2, i)
\* detach_downstream has returned and the connection is not destroyed yet.
C8_Witness ==
  \E i \in DConns :
    /\ h2.dconns[i].life = "detached"
    /\ h2.log[1].op = "detach_downstream"

\* C9: submit_request is only called with the session CONNECTED and no
\* connection check in progress; a push_request_headers call by the upstream
\* that finds the session otherwise sets request_pending, starts connection
\* checking, returns 0 and does not call submit_request.
C9_NoSubmitUnlessReady ==
  [][/\ \A k \in 1..Len(h2'.log) :
          h2'.log[k].op = "submit_request" =>
            /\ h2'.log[k].state = CONNECTED
            /\ h2'.log[k].check = CHECK_NONE
     /\ \A i \in DConns :
          (/\ H2StepOf("push_request_headers", i)
           /\ ~(h2.session.state = CONNECTED
                  /\ h2.session.connection_check_state = CHECK_NONE)) =>
            /\ h2'.downstreams[DownstreamOf(h2, i)].request_pending
            /\ HasOp(h2'.log, "start_checking_connection")
            /\ ~HasOp(h2'.log, "submit_request")
            /\ h2'.rv = 0
            /\ h2'.downstreams[DownstreamOf(h2, i)].stream_id = -1
    ]_vars
\* push_request_headers found the session not ready and left the request pending.
C9_Witness ==
  /\ h2.log # <<>>
  /\ h2.log[1].op = "push_request_headers"
  /\ h2.session.state # CONNECTED
  /\ h2.downstreams[h2.log[1].dconn].request_pending

\* The step just taken made the session CONNECTED.
BecomesConnected ==
  h2.session.state # CONNECTED /\ h2'.session.state = CONNECTED
PendingAttached(h, i) ==
  /\ DownstreamOf(h, i) # 0
  /\ h.downstreams[DownstreamOf(h, i)].request_pending
PushReturned(log, i, rv) ==
  \E k \in 1..Len(log) :
    /\ log[k].op = "push_request_headers returned"
    /\ log[k].dconn = i
    /\ log[k].rv = rv
SubmitCalled(log, i, rv) ==
  \E k \in 1..Len(log) :
    /\ log[k].op = "submit_request"
    /\ log[k].dconn = i
    /\ log[k].rv = rv

\* C10 as stated: when the session becomes CONNECTED every attached Downstream
\* marked request_pending has request_pending cleared and its request handed to
\* submit_request.
C10_Original ==
  [][BecomesConnected =>
       \A i \in DConns :
         PendingAttached(h2, i) =>
           /\ ~h2'.downstreams[DownstreamOf(h2, i)].request_pending
           /\ SubmitCalled(h2'.log, i, 0) \/ SubmitCalled(h2'.log, i, -1)
    ]_vars
\* C10: when the session becomes CONNECTED every attached Downstream marked
\* request_pending has request_pending cleared, and its request is submitted
\* unless push_request_headers returns -1, which it does exactly when the request
\* is an extended CONNECT the session does not allow or submit_request fails;
\* with the session CONNECTED and no connection check in progress no attached
\* Downstream is pending.
C10_PendingFlushed ==
  [][/\ BecomesConnected =>
          \A i \in DConns :
            PendingAttached(h2, i) =>
              LET d == DownstreamOf(h2, i)
                  rejected ==
                    /\ h2.downstreams[d].req.connect_proto # CONNECT_PROTO_NONE
                    /\ ~h2'.session.allow_connect_proto
              IN  /\ ~h2'.downstreams[d].request_pending
                  /\ \/ /\ PushReturned(h2'.log, i, 0)
                        /\ SubmitCalled(h2'.log, i, 0)
                        /\ h2'.downstreams[d].stream_id # -1
                     \/ /\ PushReturned(h2'.log, i, -1)
                        /\ rejected \/ SubmitCalled(h2'.log, i, -1)
                        /\ h2'.downstreams[d].stream_id = -1
                  /\ rejected => ~HasOp(h2'.log, "submit_request")
                                   \/ \A k \in 1..Len(h2'.log) :
                                        h2'.log[k].op = "submit_request" =>
                                          h2'.log[k].dconn # i
     /\ (h2'.session.state = CONNECTED
           /\ h2'.session.connection_check_state = CHECK_NONE) =>
          \A i \in DConns : ~PendingAttached(h2', i)
    ]_vars
\* The session became CONNECTED with a pending Downstream and submitted its
\* request.
C10_Witness ==
  /\ h2.log # <<>>
  /\ h2.log[1].op = "connection_made"
  /\ \E i \in DConns :
       /\ PushReturned(h2.log, i, 0)
       /\ h2.downstreams[i].stream_id # -1
       /\ ~h2.downstreams[i].request_pending

(***************************************************************************)
(* Claims about the request data provider                                  *)
(***************************************************************************)
\* The data provider ran with a Downstream behind the stream.
DataReadBound == dread.called /\ dread.input.downstream
DataReadDrains == dread.input.rleft <= dread.input.length
DataReadEof == NGHTTP2_DATA_FLAG_EOF \in dread.out.data_flags

\* C11 as stated: DEFERRED when the buffer is empty and the request is not
\* MSG_COMPLETE; EOF whenever this read drains the buffer and the request is
\* MSG_COMPLETE; EOF never with unread bytes left.
C11_Original ==
  DataReadBound =>
    /\ (dread.input.rleft = 0 /\ dread.input.request_state # MSG_COMPLETE) =>
         dread.out.rv = NGHTTP2_ERR_DEFERRED
    /\ (DataReadDrains /\ dread.input.request_state = MSG_COMPLETE) => DataReadEof
    /\ DataReadEof => dread.input.rleft - Min(dread.input.rleft, dread.input.length) = 0
\* C11: with a Downstream behind the stream the data provider sets EOF exactly
\* when this read drains the buffer, the request is MSG_COMPLETE and the request
\* is no upgrade request still waiting for its upgrade (upgrade_request with the
\* response not at HEADER_COMPLETE, or already upgraded); it returns DEFERRED
\* exactly when nothing is read and EOF is not set, which covers an empty buffer
\* with the request not MSG_COMPLETE; unless submitting trailers fails fatally
\* it otherwise returns the bytes read.
C11_DataProvider ==
  DataReadBound =>
    LET in    == dread.input
        nread == Min(in.rleft, in.length)
        waits_for_upgrade ==
          in.upgrade_request
            /\ ~(in.response_state = HEADER_COMPLETE /\ ~in.upgraded)
    IN  /\ DataReadEof <=> (/\ DataReadDrains
                            /\ in.request_state = MSG_COMPLETE
                            /\ ~waits_for_upgrade)
        /\ DataReadEof => in.rleft - nread = 0
        /\ (in.rleft = 0 /\ in.request_state # MSG_COMPLETE) =>
             dread.out.rv = NGHTTP2_ERR_DEFERRED
        /\ dread.out.rv = NGHTTP2_ERR_DEFERRED <=> (nread = 0 /\ ~DataReadEof)
        /\ dread.out.rv \notin {NGHTTP2_ERR_DEFERRED, NGHTTP2_ERR_CALLBACK_FAILURE}
             => dread.out.rv = nread
        /\ dread.out.rv = NGHTTP2_ERR_CALLBACK_FAILURE =>
             /\ DataReadEof
             /\ HasOp(dread.out.log, "nghttp2_submit_trailer")
             /\ nghttp2_is_fatal(in.submit_trailer_rv)
\* An upgrade request whose upgrade response header has been seen reads the
\* last bytes of a complete request and gets EOF.
C11_Witness ==
  /\ DataReadBound
  /\ DataReadEof
  /\ dread.input.upgrade_request
  /\ dread.input.rleft > 0
  /\ dread.out.rv = dread.input.rleft

(***************************************************************************)
(* Claims about the request submitted by push_request_headers              *)
(***************************************************************************)
SubmitEntries(log) == {k \in 1..Len(log) : log[k].op = "submit_request"}

\* C12: push_request_headers passes a data provider to submit_request exactly
\* when the method is CONNECT, connect_proto is not NONE, content-length > 0, a
\* transfer-encoding field is present or http2_expect_body is set; and it resets
\* the Downstream's write timer exactly when the request was submitted with a
\* data provider.
C12_DataProviderIff ==
  push.called =>
    LET req == push.input.req
        expected ==
          \/ req.method = "CONNECT"
          \/ req.connect_proto # CONNECT_PROTO_NONE
          \/ req.content_length > 0
          \/ HasHeader(req.headers, "transfer-encoding")
          \/ req.http2_expect_body
        log == push.h.log
    IN  /\ \A k \in SubmitEntries(log) : log[k].data_prd = expected
        /\ Cardinality(SubmitEntries(log)) <= 1
        /\ push.h.downstreams[1].wtimer
             <=> \E k \in SubmitEntries(log) : log[k].rv = 0 /\ log[k].data_prd
\* A GET without content-length or transfer-encoding whose body intent alone
\* asks for a data provider was submitted and the write timer reset.
C12_Witness ==
  /\ push.called
  /\ push.input.req.method = "GET"
  /\ push.input.req.connect_proto = CONNECT_PROTO_NONE
  /\ push.input.req.content_length = 0
  /\ ~HasHeader(push.input.req.headers, "transfer-encoding")
  /\ push.input.req.http2_expect_body
  /\ \E k \in SubmitEntries(push.h.log) :
       push.h.log[k].rv = 0 /\ push.h.log[k].data_prd
  /\ push.h.downstreams[1].wtimer

\* The authority in the header block: the value of its :authority or host field
AuthorityFields(nva) ==
  {k \in 1..Len(nva) : nva[k].name \in {":authority", "host"}}
\* The header block was built and carries exactly one authority, the one also
\* recorded as the request's downstream host.
SendsAuthority(value) ==
  /\ Cardinality(AuthorityFields(push.block.nva)) = 1
  /\ \A k \in AuthorityFields(push.block.nva) : push.block.nva[k].value = value
  /\ push.block.request_downstream_host = value

\* The data provider submitted the request's trailers.
TrailerSubmitted == \E k \in 1..Len(dread.out.log) : dread.out.log[k].op = "nghttp2_submit_trailer"

\* C31: the data provider sets NO_END_STREAM only together with EOF and only
\* when the request has trailers left after stripping and their submission
\* succeeded; when the submission fails with a non-fatal error the stream ends
\* with EOF and without NO_END_STREAM and the bytes read are returned; when it
\* fails fatally the callback returns NGHTTP2_ERR_CALLBACK_FAILURE.
C31_TrailersNoEndStream ==
  dread.called =>
    /\ (NGHTTP2_DATA_FLAG_NO_END_STREAM \in dread.out.data_flags) =>
         /\ NGHTTP2_DATA_FLAG_EOF \in dread.out.data_flags
         /\ dread.input.trailers = "kept"
         /\ TrailerSubmitted
         /\ dread.input.submit_trailer_rv = 0
    /\ (TrailerSubmitted /\ dread.input.submit_trailer_rv # 0
          /\ ~nghttp2_is_fatal(dread.input.submit_trailer_rv)) =>
         /\ NGHTTP2_DATA_FLAG_EOF \in dread.out.data_flags
         /\ NGHTTP2_DATA_FLAG_NO_END_STREAM \notin dread.out.data_flags
         /\ dread.out.rv = Min(dread.input.rleft, dread.input.length)
    /\ (TrailerSubmitted /\ nghttp2_is_fatal(dread.input.submit_trailer_rv)) =>
         dread.out.rv = NGHTTP2_ERR_CALLBACK_FAILURE
    /\ (TrailerSubmitted /\ dread.input.submit_trailer_rv = 0) =>
         NGHTTP2_DATA_FLAG_NO_END_STREAM \in dread.out.data_flags

\* C31 witness: the trailers were submitted, the submission failed with a
\* non-fatal error, and the last bytes of the body were returned with EOF.
C31_Witness ==
  /\ dread.called
  /\ TrailerSubmitted
  /\ dread.input.submit_trailer_rv = NGHTTP2_ERR_INVALID_ARGUMENT
  /\ dread.out.rv > 0
  /\ NGHTTP2_DATA_FLAG_EOF \in dread.out.data_flags

\* C30: when the stream has no StreamData, its StreamData binds no
\* connection, or the connection has no Downstream any more (it was
\* detached), the data provider returns NGHTTP2_ERR_DEFERRED and does nothing
\* else: no byte of the request buffer is taken, no data flag is set, no
\* trailer is submitted and the write timer is left alone.
C30_DetachedReadDeferred ==
  (dread.called /\ (~dread.input.sd \/ ~dread.input.dconn \/ ~dread.input.downstream)) =>
    /\ dread.out.rv = NGHTTP2_ERR_DEFERRED
    /\ dread.out.data_flags = {}
    /\ dread.out.log = << >>
    /\ dread.out.wtimer = dread.input.wtimer

\* C30 witness: the data provider was called for a stream whose connection
\* had lost its Downstream while request body bytes were waiting, the
\* request was complete and the write timer was running.
C30_Witness ==
  /\ dread.called
  /\ dread.input.sd /\ dread.input.dconn /\ ~dread.input.downstream
  /\ dread.input.rleft > 0 /\ dread.input.length > 0
  /\ dread.input.request_state = MSG_COMPLETE
  /\ dread.input.wtimer
  /\ dread.out.rv = NGHTTP2_ERR_DEFERRED


\* C13 as stated: the origin's hostport is sent if no_host_rewrite is off or the
\* request is a regular CONNECT, and the client's authority otherwise.
C13_Original ==
  push.block.built =>
    SendsAuthority(IF ~push.input.config.no_host_rewrite
                        \/ regular_connect_method(push.input.req)
                     THEN push.input.addr.hostport
                     ELSE push.input.req.authority)
\* C13: the client's request authority is sent if it is not empty and
\* no_host_rewrite is on, http2_proxy is on, or the request is a regular
\* CONNECT; in every other case the origin's hostport is sent.
C13_AuthorityPolicy ==
  push.block.built =>
    SendsAuthority(IF push.input.req.authority # ""
                        /\ (\/ push.input.config.no_host_rewrite
                            \/ push.input.config.http2_proxy
                            \/ regular_connect_method(push.input.req))
                     THEN push.input.req.authority
                     ELSE push.input.addr.hostport)
\* A regular CONNECT with a client authority, host rewriting configured, is sent
\* with the client's authority.
C13_Witness ==
  /\ push.block.built
  /\ regular_connect_method(push.input.req)
  /\ ~push.input.config.no_host_rewrite
  /\ ~push.input.config.http2_proxy
  /\ push.input.req.authority = "A"
  /\ SendsAuthority("A")

FieldsNamed(nva, name) == {k \in 1..Len(nva) : nva[k].name = name}
HasField(nva, name, value) ==
  \E k \in FieldsNamed(nva, name) : nva[k].value = value
\* The header block was built for a non-CONNECT request with scheme http,
\* authority "A" and one incoming x-forwarded-for "X" that is not stripped, for a
\* TLS origin with scheme upgrade, with x-forwarded-for being added.
C14_Case ==
  /\ push.block.built
  /\ push.input.req.method # "CONNECT"
  /\ push.input.req.scheme = "http"
  /\ push.input.req.authority = "A"
  /\ Cardinality(FieldsNamed(push.input.req.headers, "x-forwarded-for")) = 1
  /\ HeaderValue(push.input.req.headers, "x-forwarded-for") = "X"
  /\ ~push.input.config.xff.strip_incoming
  /\ push.input.config.xff.add
  /\ push.input.addr.tls
  /\ push.input.addr.upgrade_scheme
C14_XffAppended ==
  /\ Cardinality(FieldsNamed(push.block.nva, "x-forwarded-for")) = 1
  /\ HasField(push.block.nva, "x-forwarded-for",
              "X, " \o push.input.handler.ipaddr)

\* C14 as stated: in that case the block has :scheme https, :authority A and
\* exactly one x-forwarded-for, "X, <client_ip>".
C14_Original ==
  C14_Case =>
    /\ HasField(push.block.nva, ":scheme", "https")
    /\ HasField(push.block.nva, ":authority", "A")
    /\ C14_XffAppended
\* C14: in that case the block has :scheme https and exactly one
\* x-forwarded-for, "X, <client_ip>"; its authority is A if no_host_rewrite or
\* http2_proxy is on and the origin's hostport otherwise, carried in :authority
\* unless the request has no authority form (no_authority) and is no extended
\* CONNECT, when it is carried in host.
C14_SchemeAuthorityXff ==
  C14_Case =>
    LET authority ==
          IF push.input.config.no_host_rewrite \/ push.input.config.http2_proxy
            THEN "A" ELSE push.input.addr.hostport
        name ==
          IF ~push.input.req.no_authority
               \/ push.input.req.connect_proto # CONNECT_PROTO_NONE
            THEN ":authority" ELSE "host"
    IN  /\ HasField(push.block.nva, ":scheme", "https")
        /\ Cardinality(FieldsNamed(push.block.nva, ":scheme")) = 1
        /\ SendsAuthority(authority)
        /\ HasField(push.block.nva, name, authority)
        /\ C14_XffAppended
\* The case with host rewriting disabled: https, authority A, "X, <client_ip>".
C14_Witness ==
  /\ C14_Case
  /\ push.input.config.no_host_rewrite
  /\ HasField(push.block.nva, ":scheme", "https")
  /\ HasField(push.block.nva, ":authority", "A")
  /\ C14_XffAppended

\* The header block was built and push_request_headers added the request's
\* protocol to x-forwarded-proto (lines 410-424).
C34_Case ==
  /\ push.block.built
  /\ push.input.config.xfp.add
  /\ ~push.input.config.http2_proxy
  /\ ~regular_connect_method(push.input.req)
\* the protocol named by the :scheme field of the block
C34_SchemeSent == push.block.nva[CHOOSE k \in FieldsNamed(push.block.nva, ":scheme") : TRUE].value
\* the x-forwarded-proto value that names protocol proto after what came in
C34_XfpFor(proto) ==
  IF ~push.input.config.xfp.strip_incoming /\ HasHeader(push.input.req.headers, "x-forwarded-proto")
    THEN HeaderValue(push.input.req.headers, "x-forwarded-proto") \o ", " \o proto
    ELSE proto

\* C34: the x-forwarded-proto value that push_request_headers adds names the
\* protocol of the :scheme field of the same header block, for every request
\* scheme and origin configuration.
C34_Original ==
  C34_Case =>
    /\ Cardinality(FieldsNamed(push.block.nva, ":scheme")) = 1
    /\ HasField(push.block.nva, "x-forwarded-proto", C34_XfpFor(C34_SchemeSent))
\* An http request sent to a TLS origin with scheme upgrade: :scheme is https
\* while the added x-forwarded-proto names http.
C34_Witness ==
  /\ C34_Case
  /\ push.input.req.scheme = "http"
  /\ push.input.addr.tls /\ push.input.addr.upgrade_scheme
  /\ HasField(push.block.nva, ":scheme", "https")
  /\ HasField(push.block.nva, "x-forwarded-proto", C34_XfpFor("http"))
  /\ ~HasField(push.block.nva, "x-forwarded-proto", C34_XfpFor("https"))

\* ---------------------------------------------------------------------
\* Serial events
\* ---------------------------------------------------------------------

EventsBy(s, t) == SelectSeq(s, LAMBDA ev : ev.by = t)

Confs(s) == [i \in 1..Len(s) |-> s[i].downstreamconf]

\* Every event a thread has pushed, in the order the loop thread meets it:
\* applied, then taken by the running drain, then still in the buffer.
SerialOrder == conn_handler.applied \o conn_handler.q \o conn_handler.serial_events_

\* C15: the serial events posted by a thread are applied by the loop
\* thread in the order that thread posted them, each exactly once: under
\* every interleaving of posts and drains the events of a thread that are
\* applied, followed by those taken and those still buffered, are exactly
\* the events it posted, in its order.
C15_SerialOrderPerThread ==
  \A t \in Threads :
    /\ Confs(EventsBy(SerialOrder, t)) = conn_handler.posted[t]
    /\ \A i, j \in 1..Len(conn_handler.applied) :
         (i # j) => (conn_handler.applied[i] # conn_handler.applied[j])

\* All posted events are applied, and an event of one thread was applied
\* between two events of the other thread.
C15_Witness ==
  /\ Len(conn_handler.applied) = MaxGen
  /\ \E i \in 1..(Len(conn_handler.applied) - 2) :
       /\ conn_handler.applied[i].by = conn_handler.applied[i + 2].by
       /\ conn_handler.applied[i].by # conn_handler.applied[i + 1].by

\* ---------------------------------------------------------------------
\* Replacement of the downstream configuration
\* ---------------------------------------------------------------------

Posted(g) ==
  \E t \in Threads : \E i \in 1..Len(conn_handler.posted[t]) :
    conn_handler.posted[t][i] = g

Applied(g) ==
  \E i \in 1..Len(conn_handler.applied) :
    conn_handler.applied[i].downstreamconf = g

\* The snapshots that Downstreams in flight refer to.
InflightGenerations ==
  UNION {{conn_handler.workers[w].inflight[i] :
            i \in 1..Len(conn_handler.workers[w].inflight)} : w \in Workers}

\* C16: once a thread has posted REPLACE_DOWNSTREAM with generation g, the
\* loop thread eventually applies it and every worker eventually has had g
\* as its current downstream configuration; and a snapshot that a
\* Downstream in flight refers to is never released.
C16_ReplaceDownstream ==
  /\ \A g \in 1..MaxGen :
       Posted(g) ~>
         (Applied(g) /\ \A w \in Workers : g \in conn_handler.workers[w].seen)
  /\ [](InflightGenerations \cap conn_handler.released = {})

\* A posted generation is applied and is the current configuration of
\* every worker, while a Downstream in flight is the last holder of the
\* initial snapshot.
C16_Witness ==
  /\ \E g \in 1..MaxGen :
       /\ Applied(g)
       /\ \A w \in Workers : conn_handler.workers[w].downstreamconf_ = g
  /\ 0 \in InflightGenerations
  /\ conn_handler.use_count[0] = 1
  /\ 0 \notin conn_handler.released


\* ---------------------------------------------------------------------
\* QUIC datagram routing
\* ---------------------------------------------------------------------

RouteWid == DcidWorkerID(route.dgram.dcid)

RouteLocal == find_worker(route.cfg, RouteWid)

RouteLingering ==
  match_quic_lingering_worker_process_worker_id(route.cfg, RouteWid)

RouteDestinations == Len(route.out.worker_events) + Len(route.out.ipc)

\* C17: a datagram goes to at most one destination; if a local Worker is
\* registered under the Worker ID of its destination Connection ID it goes
\* to that Worker and nowhere else; otherwise, if a lingering worker
\* process lists the Worker ID, the datagram goes to that process's socket
\* as one DGRAM_FORWARD message with its remote address, local address
\* and packet info.
C17_RoutedToOne ==
  route.called =>
    /\ RouteDestinations <= 1
    /\ (RouteLocal # NoWorker) =>
         /\ Len(route.out.worker_events) = 1
         /\ route.out.worker_events[1].worker = RouteLocal
         /\ route.out.worker_events[1].data = route.dgram.data
    /\ (RouteLocal = NoWorker /\ RouteLingering # NoProcess) =>
         /\ Len(route.out.ipc) = 1
         /\ route.out.ipc[1] =
              [fd |-> route.cfg.quic_lingering_worker_processes_[RouteLingering].quic_ipc_fd,
               type |-> "DGRAM_FORWARD",
               remote_addr |-> route.dgram.remote_addr,
               local_addr |-> route.dgram.local_addr,
               pi |-> route.dgram.pi,
               data |-> route.dgram.data]

\* A datagram for a Worker ID that only the second lingering worker
\* process lists has been forwarded to that process.
C17_Witness ==
  /\ route.called
  /\ RouteLocal = NoWorker
  /\ RouteLingering = 2
  /\ Len(route.out.ipc) = 1
  /\ route.out.ipc[1].fd = 8


====
